---- MODULE Spec2Model ----
(***************************************************************************)
(* Model of the AutoBalloon dimension detection core                       *)
(* (backend/services/detection_service.py and its collaborators            *)
(* file_service.py, vision_service.py, grid_service.py, models/schemas.py).*)
(*                                                                         *)
(* Conventions                                                             *)
(*  - A text is a sequence of characters; a character is a string.  ASCII  *)
(*    characters are themselves; the other glyphs are named: "deg" (the    *)
(*    degree sign), "Oslash"/"oslash" (the diameter letters), "times",     *)
(*    "pm" (plus-minus), "endash", "diameter" (the diameter sign),         *)
(*    "Phi"/"phi".                                                         *)
(*  - Coordinates are integers of the 0..1000 frame.  Centres, which the   *)
(*    code computes as floats (a + b) / 2, are kept doubled (a + b).       *)
(*  - Scores are fixed point: a text score is the exact fraction n/d, a    *)
(*    location score is in 1/10000 and a combined score or a confidence in *)
(*    1/100000.  A distance is kept as the floor of 20 times its value.    *)
(***************************************************************************)
EXTENDS Integers, Sequences, FiniteSets, TLC

\* ------------------------------------------------------------------ text

Digits == {"0", "1", "2", "3", "4", "5", "6", "7", "8", "9"}

UpperCase ==
  <<"A", "B", "C", "D", "E", "F", "G", "H", "I", "J", "K", "L", "M", "N",
    "O", "P", "Q", "R", "S", "T", "U", "V", "W", "X", "Y", "Z", "Oslash">>

LowerCase ==
  <<"a", "b", "c", "d", "e", "f", "g", "h", "i", "j", "k", "l", "m", "n",
    "o", "p", "q", "r", "s", "t", "u", "v", "w", "x", "y", "z", "oslash">>

\* str.lower() on one character
LowerCh(c) ==
  IF \E i \in 1..Len(UpperCase) : UpperCase[i] = c
  THEN LowerCase[CHOOSE i \in 1..Len(UpperCase) : UpperCase[i] = c]
  ELSE c

\* str.lower()
Lower(s) == [i \in 1..Len(s) |-> LowerCh(s[i])]

\* the characters the regex class \w matches
WordChars == Digits \cup {LowerCase[i] : i \in 1..Len(LowerCase)}
                    \cup {UpperCase[i] : i \in 1..Len(UpperCase)} \cup {"_"}

\* s with the characters satisfying no Keep removed (str.replace(c, ''), re.sub)
RECURSIVE Filter(_, _)
Filter(s, keep) ==
  IF s = <<>> THEN <<>>
  ELSE IF Head(s) \in keep THEN <<Head(s)>> \o Filter(Tail(s), keep)
       ELSE Filter(Tail(s), keep)

\* str.strip(): leading and trailing blanks removed
RECURSIVE LStrip(_)
LStrip(s) == IF s # <<>> /\ Head(s) = " " THEN LStrip(Tail(s)) ELSE s

RECURSIVE RStrip(_)
RStrip(s) ==
  IF s # <<>> /\ s[Len(s)] = " " THEN RStrip(SubSeq(s, 1, Len(s) - 1)) ELSE s

Strip(s) == RStrip(LStrip(s))

\* str.split()[0] of a stripped text ("" when the text is empty)
RECURSIVE FirstWord(_)
FirstWord(s) ==
  IF s = <<>> \/ Head(s) = " " THEN <<>>
  ELSE <<Head(s)>> \o FirstWord(Tail(s))

\* str.split()[-1] of a stripped text ("" when the text is empty)
RECURSIVE LastWord(_)
LastWord(s) ==
  IF s = <<>> \/ s[Len(s)] = " " THEN <<>>
  ELSE LastWord(SubSeq(s, 1, Len(s) - 1)) \o <<s[Len(s)]>>

\* str.endswith
EndsWith(s, w) ==
  Len(w) <= Len(s) /\ SubSeq(s, Len(s) - Len(w) + 1, Len(s)) = w

\* the `in` operator on strings: w is a substring of s
IsSubstring(w, s) ==
  \E i \in 1..(Len(s) + 1) :
     i + Len(w) - 1 <= Len(s) /\ SubSeq(s, i, i + Len(w) - 1) = w

\* ------------------------------------------------- regular expressions
\* A pattern is run as a set of positions: P is the set of positions (1 based,
\* Len(s) + 1 is the end) the match may have reached.

\* one character of the class cls
One(s, P, cls) == {p + 1 : p \in {q \in P : q <= Len(s) /\ s[q] \in cls}}

\* cls*
Star(s, P, cls) ==
  {q \in 1..(Len(s) + 1) :
     \E p \in P : p <= q /\ \A k \in p..(q - 1) : s[k] \in cls}

\* cls+
Plus(s, P, cls) == Star(s, One(s, P, cls), cls)

\* cls?
Opt(s, P, cls) == P \cup One(s, P, cls)

\* the literal w
Lit(s, P, w) ==
  {p + Len(w) : p \in {q \in P : q + Len(w) - 1 <= Len(s)
                                  /\ SubSeq(s, q, q + Len(w) - 1) = w}}

\* $
AtEnd(s, P) == (Len(s) + 1) \in P

Start == {1}

Quotes == {"\"", "'"}

\* ------------------------------------------- the grouper's text predicates
\* All of them match with re.IGNORECASE: the patterns below are run on the
\* lower-cased text.

\* DetectionService.MODIFIER_PATTERNS and _is_modifier
_is_modifier(text) ==
  LET s == Lower(Strip(text)) IN
    \/ AtEnd(s, One(s, Plus(s, Start, Digits), {"x"}))              \* ^\d+[xX]$
    \/ AtEnd(s, Plus(s, One(s, Start, {"x"}), Digits))              \* ^[xX]\d+$
    \/ AtEnd(s, Lit(s, One(s, Plus(s, Lit(s, Start, <<"(">>), Digits), {"x"}),
                    <<")">>))                                       \* ^\(\d+[xX]\)$
    \/ AtEnd(s, Opt(s, Lit(s, Start, <<"t", "y", "p">>), {"."}))    \* ^TYP\.?$
    \/ AtEnd(s, Opt(s, Lit(s, Start, <<"r", "e", "f">>), {"."}))    \* ^REF\.?$

\* \d+\.?\d* from the positions P
Decimal(s, P) == Star(s, Opt(s, Plus(s, P, Digits), {"."}), Digits)

\* \d+/\d+ from the positions P
Fraction(s, P) == Plus(s, Lit(s, Plus(s, P, Digits), <<"/">>), Digits)

\* (?:in|mm) from the positions P
InOrMm(s, P) == Lit(s, P, <<"i", "n">>) \cup Lit(s, P, <<"m", "m">>)

_looks_like_dimension(text) ==
  LET s == Lower(Strip(text)) IN
    \/ AtEnd(s, Opt(s, Decimal(s, Start), Quotes))        \* ^\d+\.?\d*["\']?$
    \/ AtEnd(s, Opt(s, Fraction(s, Start), Quotes))       \* ^\d+/\d+["\']?$
    \/ AtEnd(s, InOrMm(s, Decimal(s, Start)))             \* ^\d+\.?\d*(?:in|mm)$
    \/ Plus(s, One(s, Start, {"oslash", "r"}), Digits) # {}  \* ^[ØøR]\d+

_is_complete_dim(text) ==
  LET s == Lower(Strip(text)) IN
    \* ^\d+\s+\d+/\d+["\']$
    \/ AtEnd(s, One(s, Fraction(s, Plus(s, Plus(s, Start, Digits), {" "})), Quotes))
    \* ^\d+/\d+["\']$
    \/ AtEnd(s, One(s, Fraction(s, Start), Quotes))
    \* ^\d+\.?\d*["\']$
    \/ AtEnd(s, One(s, Decimal(s, Start), Quotes))
    \* ^\d+\.\d{2,}(?:in|mm)?$
    \/ LET d2 == Plus(s, One(s, Lit(s, Plus(s, Start, Digits), <<".">>), Digits),
                      Digits)
       IN AtEnd(s, d2 \cup InOrMm(s, d2))
    \* ^[ØøR]\d+\.?\d*["\']?$
    \/ AtEnd(s, Opt(s, Decimal(s, One(s, Start, {"oslash", "r"})), Quotes))
    \* ^\d+(?:\.\d+)?\s*mm$
    \/ LET n == Plus(s, Start, Digits)
           f == n \cup Plus(s, Lit(s, n, <<".">>), Digits)
       IN AtEnd(s, Lit(s, Star(s, f, {" "}), <<"m", "m">>))

FeatureNouns ==
  {<<"t", "e", "e", "t", "h">>, <<"p", "l", "a", "c", "e", "s">>,
   <<"h", "o", "l", "e", "s">>, <<"s", "l", "o", "t", "s">>, <<"p", "l", "c", "s">>}

_is_complete_feature(text) ==
  \/ _is_complete_dim(text)
  \* ^\d+\s+(?:Teeth|Places|Holes|Slots|Plcs)$ ; the caller passes stripped text
  \/ LET s == Lower(text)
         p == Plus(s, Plus(s, Start, Digits), {" "})
     IN \E w \in FeatureNouns : AtEnd(s, Lit(s, p, w))

measurement_words ==
  {<<"t", "e", "e", "t", "h">>, <<"t", "o", "o", "t", "h">>, <<"p", "i", "t", "c", "h">>,
   <<"p", "l", "a", "c", "e", "s">>, <<"h", "o", "l", "e", "s">>, <<"s", "l", "o", "t", "s">>,
   <<"t", "h", "r", "e", "a", "d", "s">>, <<"f", "l", "a", "n", "g", "e">>,
   <<"t", "u", "b", "e">>, <<"s", "h", "a", "f", "t">>, <<"b", "o", "r", "e">>,
   <<"k", "e", "y">>, <<"o", "d">>, <<"i", "d">>, <<"d", "i", "a">>,
   <<"d", "i", "a", "m", "e", "t", "e", "r">>, <<"d", "e", "p", "t", "h">>,
   <<"w", "i", "d", "t", "h">>, <<"l", "e", "n", "g", "t", "h">>,
   <<"h", "e", "i", "g", "h", "t">>, <<"t", "h", "k">>,
   <<"t", "h", "i", "c", "k", "n", "e", "s", "s">>, <<"t", "r", "a", "v", "e", "l">>,
   <<"m", "a", "x">>, <<"m", "i", "n">>}

_is_measurement_related(text) == Lower(Strip(text)) \in measurement_words

DESCRIPTION_STARTERS ==
  {<<"f", "o", "r">>, <<"m", "a", "x">>, <<"m", "i", "n">>, <<"t", "y", "p">>,
   <<"r", "e", "f">>, <<"a", "p", "p", "r", "o", "x">>,
   <<"n", "o", "m", "i", "n", "a", "l">>}

PHRASE_TERMINATORS ==
  {<<"w", "i", "d", "t", "h">>, <<"l", "e", "n", "g", "t", "h">>,
   <<"d", "i", "a", "m", "e", "t", "e", "r">>, <<"d", "e", "p", "t", "h">>,
   <<"h", "e", "i", "g", "h", "t">>, <<"o", "d">>, <<"i", "d">>, <<"d", "i", "a">>,
   <<"t", "h", "k">>, <<"t", "h", "i", "c", "k", "n", "e", "s", "s">>,
   <<"t", "r", "a", "v", "e", "l">>, <<"s", "h", "a", "f", "t">>,
   <<"b", "o", "r", "e">>, <<"t", "h", "r", "e", "a", "d">>}

\* re.sub(r'[.,;:]+$', '', s)
RECURSIVE StripTrailingPunct(_)
StripTrailingPunct(s) ==
  IF s # <<>> /\ s[Len(s)] \in {".", ",", ";", ":"}
  THEN StripTrailingPunct(SubSeq(s, 1, Len(s) - 1)) ELSE s

_ends_description_phrase(text) ==
  LET text_clean == StripTrailingPunct(Lower(Strip(text))) IN
    \E terminator \in PHRASE_TERMINATORS : EndsWith(text_clean, terminator)

\* the list `connectors` of _should_merge_horizontal_improved
connectors ==
  {<<"x">>, <<"times">>, <<"w", "d">>, <<"l", "g">>, <<"p", "i", "t", "c", "h">>,
   <<"t", "e", "e", "t", "h">>, <<"d", "i", "a", "m", "e", "t", "e", "r">>,
   <<"d", "i", "a">>, <<"m", "a", "j", "o", "r">>, <<"m", "i", "n", "o", "r">>}

\* ^(?:x|X|×|Wd\.?|Lg\.?|Key|OD|ID|Pitch|Teeth|Diameter|Dia\.?|Major|Minor)$
IsConnectorWord(curr) ==
  LET s == Lower(curr) IN
    \/ s \in {<<"x">>, <<"times">>, <<"k", "e", "y">>, <<"o", "d">>, <<"i", "d">>,
              <<"p", "i", "t", "c", "h">>, <<"t", "e", "e", "t", "h">>,
              <<"d", "i", "a", "m", "e", "t", "e", "r">>, <<"m", "a", "j", "o", "r">>,
              <<"m", "i", "n", "o", "r">>}
    \/ \E w \in {<<"w", "d">>, <<"l", "g">>, <<"d", "i", "a">>} :
          AtEnd(s, Opt(s, Lit(s, Start, w), {"."}))

\* ^(?:Flange|Tube|OD|ID|Pipe|Thread|For|Pitch|Teeth|Max|Min|Typ|Diameter|Dia\.?|Major|Minor)$
IsDescriptiveLabel(lower) ==
  LET s == Lower(lower) IN
    \/ s \in {<<"f", "l", "a", "n", "g", "e">>, <<"t", "u", "b", "e">>, <<"o", "d">>,
              <<"i", "d">>, <<"p", "i", "p", "e">>, <<"t", "h", "r", "e", "a", "d">>,
              <<"f", "o", "r">>, <<"p", "i", "t", "c", "h">>, <<"t", "e", "e", "t", "h">>,
              <<"m", "a", "x">>, <<"m", "i", "n">>, <<"t", "y", "p">>,
              <<"d", "i", "a", "m", "e", "t", "e", "r">>, <<"m", "a", "j", "o", "r">>,
              <<"m", "i", "n", "o", "r">>}
    \/ AtEnd(s, Opt(s, Lit(s, Start, <<"d", "i", "a">>), {"."}))

\* ManufacturingPatterns.is_tolerance: ^[+\-±]\s*\.?\d+(?:\.\d+)?$ on the stripped text
is_tolerance(text) ==
  LET s == Strip(text)
      n == Plus(s, Opt(s, Star(s, One(s, Start, {"+", "-", "pm"}), {" "}), {"."}),
                Digits)
  IN AtEnd(s, n \cup Plus(s, Lit(s, n, <<".">>), Digits))

\* `curr.lower() in ['in', 'mm', '"', "'", "deg"]`
UnitWords == {<<"i", "n">>, <<"m", "m">>, <<"\"">>, <<"'">>, <<"d", "e", "g">>}

\* ------------------------------------------------------ text similarity

\* _normalize with the en dash replaced after the last filter, so that the '-'
\* it leaves is what a second call works on
_normalize_hyphen_removed(text) ==
  LET n1 == Lower(text)
      n2 == [i \in 1..Len(n1) |-> IF n1[i] = "oslash" THEN "o" ELSE n1[i]]
      n3 == Filter(n2, (WordChars \cup {".", "+", "/", "endash"}))
  IN [i \in 1..Len(n3) |-> IF n3[i] = "endash" THEN "-" ELSE n3[i]]

\* DetectionService._normalize: lower(); 'ø' -> 'o'; '"', "'", ' ' removed;
\* the en dash -> '-'; then every character outside [\w.\-+/] removed.
_normalize(text) ==
  LET n1 == Lower(text)
      n2 == [i \in 1..Len(n1) |->
               IF n1[i] = "oslash" THEN "o"
               ELSE IF n1[i] = "endash" THEN "-" ELSE n1[i]]
      n3 == Filter(n2, {n2[i] : i \in 1..Len(n2)} \ {"\"", "'", " "})
  IN Filter(n3, WordChars \cup {".", "-", "+", "/"})

\* length of the common run of a from i and b from j, inside a[..ahi], b[..bhi]
RECURSIVE RunLen(_, _, _, _, _, _)
RunLen(a, b, i, j, ahi, bhi) ==
  IF i <= ahi /\ j <= bhi /\ a[i] = b[j]
  THEN 1 + RunLen(a, b, i + 1, j + 1, ahi, bhi) ELSE 0

\* difflib.SequenceMatcher.find_longest_match(alo, ahi, blo, bhi) without junk:
\* the longest block; of those the one earliest in a; of those the one earliest
\* in b.  Bounds are inclusive here; <<i, j, k>> with k = 0 when nothing matches.
find_longest_match(a, b, alo, ahi, blo, bhi) ==
  LET cand == {<<i, j>> \in (alo..ahi) \X (blo..bhi) : a[i] = b[j]}
      len(c) == RunLen(a, b, c[1], c[2], ahi, bhi)
  IN IF cand = {} THEN <<alo, blo, 0>>
     ELSE LET best == CHOOSE c \in cand :
                        \A d \in cand :
                           \/ len(c) > len(d)
                           \/ /\ len(c) = len(d)
                              /\ \/ c[1] < d[1]
                                 \/ c[1] = d[1] /\ c[2] <= d[2]
          IN <<best[1], best[2], len(best)>>

\* the total size of SequenceMatcher.get_matching_blocks()
RECURSIVE MatchingSize(_, _, _, _, _, _)
MatchingSize(a, b, alo, ahi, blo, bhi) ==
  IF alo > ahi \/ blo > bhi THEN 0
  ELSE LET m == find_longest_match(a, b, alo, ahi, blo, bhi) IN
         IF m[3] = 0 THEN 0
         ELSE m[3] + MatchingSize(a, b, alo, m[1] - 1, blo, m[2] - 1)
                   + MatchingSize(a, b, m[1] + m[3], ahi, m[2] + m[3], bhi)

\* A text score: the fraction n / d.
Frac(n, d) == [n |-> n, d |-> d]

\* SequenceMatcher(None, a, b).ratio() = 2.0 * matches / (len(a) + len(b)), 1.0
\* for two empty texts
ratio(a, b) ==
  IF Len(a) + Len(b) = 0 THEN Frac(1, 1)
  ELSE Frac(2 * MatchingSize(a, b, 1, Len(a), 1, Len(b)), Len(a) + Len(b))

\* _text_similarity on the two normalised texts
Similarity(n1, n2) ==
  IF n1 = n2 THEN Frac(1, 1)
  ELSE IF IsSubstring(n1, n2) \/ IsSubstring(n2, n1) THEN Frac(4, 5)
  ELSE ratio(n1, n2)

\* DetectionService._text_similarity
_text_similarity(s1, s2) == Similarity(_normalize(s1), _normalize(s2))

\* comparisons of a text score with the literal p / q
FracLt(f, p, q) == f.n * q < p * f.d
FracGt(f, p, q) == f.n * q > p * f.d
FracGe(f, p, q) == f.n * q >= p * f.d

\* a text score in 1/100000, rounded down
FracScore(f) == (f.n * 100000) \div f.d

\* ------------------------------------------------------------ OCR spans
\* An OCRDetection: text, bounding_box and confidence (1/100000) as in the code.
\* oid stands for the identity of the Python object (id(ocr)); members is the set
\* of positions, in the raw OCR list, of the raw spans the object was built from
\* (a history field, read by the properties only).
Box(xmin, xmax, ymin, ymax) ==
  [xmin |-> xmin, xmax |-> xmax, ymin |-> ymin, ymax |-> ymax]

OCRDetection(text, box, confidence, oid, members) ==
  [text |-> text, bounding_box |-> box, confidence |-> confidence,
   oid |-> oid, members |-> members]

Max(a, b) == IF a >= b THEN a ELSE b
Min(a, b) == IF a <= b THEN a ELSE b
Abs(a) == IF a >= 0 THEN a ELSE -a

RECURSIVE SumSeq(_)
SumSeq(s) == IF s = <<>> THEN 0 ELSE Head(s) + SumSeq(Tail(s))

\* sorted(s, key): the stable sort of s by the keys K[i] = <<k1, k2>>
KeyLess(a, b) == a[1] < b[1] \/ (a[1] = b[1] /\ a[2] < b[2])

StableSort(s, K) ==
  LET n == Len(s)
      rank(i) == 1 + Cardinality({j \in 1..n :
                       KeyLess(K[j], K[i]) \/ (K[j] = K[i] /\ j < i)})
  IN [r \in 1..n |-> s[CHOOSE i \in 1..n : rank(i) = r]]

\* the key (ymin, xmin) of _group_ocr, _merge_group and _try_combine_nearby
YXKey(dets) ==
  [i \in 1..Len(dets) |-> <<dets[i].bounding_box.ymin, dets[i].bounding_box.xmin>>]

\* DetectionService._calculate_avg_char_height: the mean, as the fraction s / n,
\* of the heights h with 5 < h < 200; 10.0 when there is none
_calculate_avg_char_height(detections) ==
  LET hs == [i \in 1..Len(detections) |->
               detections[i].bounding_box.ymax - detections[i].bounding_box.ymin]
      heights == Filter(hs, {h \in {hs[i] : i \in 1..Len(hs)} : 5 < h /\ h < 200})
  IN IF heights = <<>> THEN [s |-> 10, n |-> 1]
     ELSE [s |-> SumSeq(heights), n |-> Len(heights)]

\* the dynamic thresholds of _group_ocr
H_THRESH(avg) == Max(40, (3 * avg.s) \div avg.n)       \* max(40, int(avg * 3.0))
V_THRESH(avg) == (6 * avg.s) \div (10 * avg.n)         \* int(avg * 0.6)
V_STACK(avg) == (25 * avg.s) \div (10 * avg.n)        \* int(avg * 2.5)

\* DetectionService._should_merge_horizontal_improved -> (merge, starts_phrase)
Verdict(merge, starts) == [merge |-> merge, starts |-> starts]

_should_merge_horizontal_improved(prev, curr, gap, in_description_phrase) ==
  LET prev_last == LastWord(Strip(prev))
      curr_lower == Strip(Lower(curr))
  IN IF in_description_phrase /\ (_ends_description_phrase(curr) \/ gap <= 50)
       THEN Verdict(TRUE, FALSE)
     ELSE IF /\ curr_lower \in DESCRIPTION_STARTERS
             /\ (_looks_like_dimension(prev_last) \/ _is_measurement_related(prev_last))
       THEN Verdict(TRUE, TRUE)
     ELSE IF _is_modifier(prev_last) /\ _looks_like_dimension(curr)
       THEN Verdict(TRUE, FALSE)
     ELSE IF _looks_like_dimension(prev_last) /\ _is_modifier(curr)
       THEN Verdict(TRUE, FALSE)
     ELSE IF Lower(prev_last) \in connectors
       THEN Verdict(TRUE, FALSE)
     ELSE IF IsConnectorWord(curr)
       THEN Verdict(TRUE, FALSE)
     ELSE IF /\ AtEnd(prev_last, Plus(prev_last, Start, Digits \cup {"."}))
             /\ Lower(curr) \in UnitWords
       THEN Verdict(TRUE, FALSE)
     ELSE IF gap <= 15 /\ ~(_is_complete_dim(prev) /\ _is_complete_dim(curr))
       THEN Verdict(TRUE, FALSE)
     ELSE Verdict(FALSE, FALSE)

\* DetectionService._should_merge_vertical_improved
_should_merge_vertical_improved(upper, lower, in_description_phrase) ==
  LET upper_clean == Strip(upper)
      lower_first == Lower(FirstWord(Strip(lower)))
  IN IF _is_complete_feature(upper_clean)
       THEN IF is_tolerance(lower) THEN Verdict(TRUE, FALSE)
            ELSE IF lower_first = <<"f", "o", "r">> THEN Verdict(TRUE, TRUE)
            ELSE Verdict(FALSE, FALSE)
     ELSE IF is_tolerance(lower) THEN Verdict(TRUE, FALSE)
     ELSE IF IsDescriptiveLabel(lower) THEN Verdict(TRUE, FALSE)
     ELSE Verdict(FALSE, FALSE)

\* DetectionService._should_group_improved; the centres and their differences
\* are doubled
_should_group_improved(det1, det2, h_thresh, v_thresh, v_stack, in_description_phrase) ==
  LET b1 == det1.bounding_box
      b2 == det2.bounding_box
      c1_x == b1.xmin + b1.xmax
      c1_y == b1.ymin + b1.ymax
      c2_x == b2.xmin + b2.xmax
      c2_y == b2.ymin + b2.ymax
      x_gap == b2.xmin - b1.xmax
      y_diff == Abs(c2_y - c1_y)
      x_diff == Abs(c2_x - c1_x)
      t1 == Strip(det1.text)
      t2 == Strip(det2.text)
  IN IF y_diff <= 2 * v_thresh /\ -5 <= x_gap /\ x_gap <= h_thresh
       THEN _should_merge_horizontal_improved(t1, t2, x_gap, in_description_phrase)
     ELSE IF x_diff <= 3 * h_thresh /\ 0 < c2_y - c1_y /\ c2_y - c1_y <= 2 * v_stack
       THEN _should_merge_vertical_improved(t1, t2, in_description_phrase)
     ELSE Verdict(FALSE, FALSE)

\* The `for member in group` loop of _expand_group_with_phrases for the span at
\* position i with the text `text`: verdicts[k] is what _should_group_improved
\* says of the k-th member and the span; the first member that merges takes the
\* span into the group.  st is the state of the expansion: group (a sequence of
\* positions of all_dets, in the order they joined), used, changed and
\* in_description_phrase.
Join(st, i, text, verdicts) ==
  LET hits == {k \in 1..Len(st.group) : verdicts[k].merge} IN
    IF hits = {} THEN st
    ELSE LET k == CHOOSE x \in hits : \A y \in hits : x <= y IN
           [group |-> Append(st.group, i), used |-> st.used \cup {i},
            changed |-> TRUE,
            in_description_phrase |->
              IF _ends_description_phrase(text) THEN FALSE
              ELSE IF verdicts[k].starts THEN TRUE
              ELSE st.in_description_phrase]

\* One pass of the `for i, det in enumerate(all_dets)` loop of
\* _expand_group_with_phrases, from position i
RECURSIVE ExpandPass(_, _, _, _, _, _)
ExpandPass(i, st, all_dets, h_thresh, v_thresh, v_stack) ==
  IF i > Len(all_dets) THEN st
  ELSE ExpandPass(i + 1,
         IF i \in st.used THEN st
         ELSE Join(st, i, all_dets[i].text,
                   [k \in 1..Len(st.group) |->
                      _should_group_improved(all_dets[st.group[k]], all_dets[i],
                         h_thresh, v_thresh, v_stack, st.in_description_phrase)]),
         all_dets, h_thresh, v_thresh, v_stack)

\* DetectionService._expand_group_with_phrases: `while changed`; WhileChanged is
\* the test of the loop after a pass
RECURSIVE WhileChanged(_, _, _, _, _)
_expand_group_with_phrases(st, all_dets, h_thresh, v_thresh, v_stack) ==
  WhileChanged(ExpandPass(1, [st EXCEPT !.changed = FALSE], all_dets,
                          h_thresh, v_thresh, v_stack),
               all_dets, h_thresh, v_thresh, v_stack)

WhileChanged(st, all_dets, h_thresh, v_thresh, v_stack) ==
  IF st.changed
    THEN _expand_group_with_phrases(st, all_dets, h_thresh, v_thresh, v_stack)
  ELSE st

\* the union of the boxes of the spans ds
UnionBox(ds) ==
  LET xs == {ds[i].bounding_box.xmin : i \in 1..Len(ds)}
      xe == {ds[i].bounding_box.xmax : i \in 1..Len(ds)}
      ys == {ds[i].bounding_box.ymin : i \in 1..Len(ds)}
      ye == {ds[i].bounding_box.ymax : i \in 1..Len(ds)}
  IN Box(CHOOSE v \in xs : \A w \in xs : v <= w, CHOOSE v \in xe : \A w \in xe : v >= w,
         CHOOSE v \in ys : \A w \in ys : v <= w, CHOOSE v \in ye : \A w \in ye : v >= w)

RECURSIVE UnionAll(_)
UnionAll(S) ==
  IF S = {} THEN {} ELSE LET x == CHOOSE y \in S : TRUE IN x \cup UnionAll(S \ {x})

\* _merge_group with the box of the first span of the group as the merged box
_merge_group_first_box(group, new_oid) ==
  IF Len(group) = 1 THEN group[1]
  ELSE
    LET g == StableSort(group, YXKey(group))
        sep(i) == IF i > 1 /\ (\/ g[i].bounding_box.ymin - g[i-1].bounding_box.ymax > 8
                               \/ g[i].bounding_box.xmin - g[i-1].bounding_box.xmax > 10)
                  THEN <<" ">> ELSE <<>>
        parts[i \in 0..Len(g)] == IF i = 0 THEN <<>> ELSE parts[i-1] \o sep(i) \o g[i].text
    IN OCRDetection(parts[Len(g)], g[1].bounding_box,
                    SumSeq([i \in 1..Len(g) |-> g[i].confidence]) \div Len(g),
                    new_oid, UnionAll({g[i].members : i \in 1..Len(g)}))

\* DetectionService._merge_group: a group of one is returned as it is (the same
\* object); else a new object, with identity new_oid
_merge_group(group, new_oid) ==
  IF Len(group) = 1 THEN group[1]
  ELSE
    LET g == StableSort(group, YXKey(group))
        sep(i) == IF i > 1 /\ (\/ g[i].bounding_box.ymin - g[i-1].bounding_box.ymax > 8
                               \/ g[i].bounding_box.xmin - g[i-1].bounding_box.xmax > 10)
                  THEN <<" ">> ELSE <<>>
        parts[i \in 0..Len(g)] == IF i = 0 THEN <<>> ELSE parts[i-1] \o sep(i) \o g[i].text
    IN OCRDetection(parts[Len(g)], UnionBox(g),
                    SumSeq([i \in 1..Len(g) |-> g[i].confidence]) \div Len(g),
                    new_oid, UnionAll({g[i].members : i \in 1..Len(g)}))

\* the `for i, det in enumerate(sorted_dets)` loop of _group_ocr, from position i:
\* the groups, each a sequence of positions of sorted_dets; CloseGroup takes the
\* expanded group st into the groups and goes on
RECURSIVE CloseGroup(_, _, _, _, _, _, _)
RECURSIVE GroupLoop(_, _, _, _, _, _, _)
GroupLoop(i, groups, used, sorted_dets, h_thresh, v_thresh, v_stack) ==
  IF i > Len(sorted_dets) THEN groups
  ELSE IF i \in used
    THEN GroupLoop(i + 1, groups, used, sorted_dets, h_thresh, v_thresh, v_stack)
  ELSE CloseGroup(i, groups,
         _expand_group_with_phrases(
            [group |-> <<i>>, used |-> used \cup {i}, changed |-> TRUE,
             in_description_phrase |-> FALSE],
            sorted_dets, h_thresh, v_thresh, v_stack),
         sorted_dets, h_thresh, v_thresh, v_stack)

CloseGroup(i, groups, st, sorted_dets, h_thresh, v_thresh, v_stack) ==
  GroupLoop(i + 1, Append(groups, st.group), st.used, sorted_dets,
            h_thresh, v_thresh, v_stack)

\* `merged.append(self._merge_group(group))` for every group.  A merged span is
\* a new object: its identity is taken after those of the n raw spans.
MergeGroups(groups, sorted_dets, n) ==
  [g \in 1..Len(groups) |->
     _merge_group([k \in 1..Len(groups[g]) |-> sorted_dets[groups[g][k]]], n + g)]

\* _group_ocr after its sort
GroupSorted(sorted_dets, n, avg_height) ==
  MergeGroups(GroupLoop(1, <<>>, {}, sorted_dets, H_THRESH(avg_height),
                        V_THRESH(avg_height), V_STACK(avg_height)),
              sorted_dets, n)

\* DetectionService._group_ocr
_group_ocr(detections, avg_height) ==
  IF detections = <<>> THEN <<>>
  ELSE GroupSorted(StableSort(detections, YXKey(detections)), Len(detections),
                   avg_height)

\* ------------------------------------------------------- fusion / matcher
\* models/schemas.py BoundingBox: every field an int in [0, 1000] (pydantic's
\* Field(ge=0, le=1000)); constructing one with a field outside raises
\* ValidationError.
ValidBoundingBox(b) ==
  \A v \in {b.xmin, b.xmax, b.ymin, b.ymax} : 0 <= v /\ v <= 1000

\* BoundingBox.center_x / center_y: (min + max) // 2
center_x(b) == (b.xmin + b.xmax) \div 2
center_y(b) == (b.ymin + b.ymax) \div 2

\* models/schemas.py Dimension: confidence in [0.0, 1.0] (1/100000 here)
ValidConfidence(c) == 0 <= c /\ c <= 100000

NoZone == <<"None">>

\* A Dimension.  strategy (1..4), support (the raw OCR spans its box was built
\* from) and entry (the position of its VLM entry) are history fields, read by
\* the properties only.
Dimension(id, value, zone, box, confidence, page, strategy, support, entry) ==
  [id |-> id, value |-> value, zone |-> zone, bounding_box |-> box,
   confidence |-> confidence, page |-> page,
   strategy |-> strategy, support |-> support, entry |-> entry]

\* GeminiDimension; confidence in 1/100000
GeminiDimension(value, x_percent, y_percent, confidence) ==
  [value |-> value, x_percent |-> x_percent, y_percent |-> y_percent,
   confidence |-> confidence]

\* max_dist = max(150, avg_height * 5.0), times the denominator avg.n
MaxDistN(avg) == Max(150 * avg.n, 5 * avg.s)

\* 4 * distance^2 between the centre of box b and the target
Dist4(b, target_x, target_y) ==
  (b.xmin + b.xmax - 2 * target_x) * (b.xmin + b.xmax - 2 * target_x)
  + (b.ymin + b.ymax - 2 * target_y) * (b.ymin + b.ymax - 2 * target_y)

\* distance < (p / q) * max_dist
Nearer(d4, avg, p, q) ==
  d4 * q * q * avg.n * avg.n < 4 * p * p * MaxDistN(avg) * MaxDistN(avg)

\* floor of the square root
RECURSIVE ISqrtIn(_, _, _)
ISqrtIn(n, lo, hi) ==
  IF lo >= hi THEN lo
  ELSE LET mid == (lo + hi + 1) \div 2 IN
         IF mid * mid <= n THEN ISqrtIn(n, mid, hi) ELSE ISqrtIn(n, lo, mid - 1)

ISqrt(n) == ISqrtIn(n, 0, 46340)

\* location_score = max(0, 1 - distance / max_dist), in 1/10000
location_score(d4, avg) ==
  IF ~Nearer(d4, avg, 1, 1) THEN 0
  ELSE 10000 - (ISqrt(100 * d4) * 500 * avg.n) \div MaxDistN(avg)

\* The body of the Strategy-1 loop of _match_by_location for the grouped span ocr
\* at position k, with its text_score ts and its location_score loc (1/10000).
\* st is (best_match, best_score): best_match a position of grouped_ocr, 0 for
\* None; best_score in 1/100000.
Strategy1Step(st, k, ocr, used_ocr_ids, ts, loc) ==
  LET combined == 6 * loc + (40000 * ts.n) \div ts.d IN
    IF ocr.oid \in used_ocr_ids \/ FracLt(ts, 15, 100) THEN st
    ELSE IF loc > 3000 /\ FracGt(ts, 3, 10) /\ combined > st.best_score
      THEN [best_match |-> k, best_score |-> combined]
    ELSE st

\* Strategy 1 of _match_by_location
Strategy1(grouped_ocr, gem, target_x, target_y, used_ocr_ids, avg) ==
  LET run[k \in 0..Len(grouped_ocr)] ==
        IF k = 0 THEN [best_match |-> 0, best_score |-> 0]
        ELSE Strategy1Step(run[k - 1], k, grouped_ocr[k], used_ocr_ids,
               _text_similarity(gem.value, grouped_ocr[k].text),
               location_score(Dist4(grouped_ocr[k].bounding_box, target_x, target_y),
                              avg))
  IN run[Len(grouped_ocr)]

\* Strategy 2 with the text scores ts[k] of the grouped spans: text_candidates
\* sorted by (distance, -text_score); the first, as (best_match, best_score),
\* best_match = 0 when there is no candidate
Strategy2Pick(grouped_ocr, ts, target_x, target_y, used_ocr_ids, avg) ==
  LET d4(k) == Dist4(grouped_ocr[k].bounding_box, target_x, target_y)
      ok(k) == /\ grouped_ocr[k].oid \notin used_ocr_ids
               /\ FracGe(ts[k], 1, 2)
               /\ IF FracGt(ts[k], 8, 10) THEN Nearer(d4(k), avg, 3, 2)
                  ELSE Nearer(d4(k), avg, 1, 1)
      idx == [k \in 1..Len(grouped_ocr) |-> k]
      text_candidates == Filter(idx, {k \in 1..Len(grouped_ocr) : ok(k)})
      sorted == StableSort(text_candidates,
                   [i \in 1..Len(text_candidates) |->
                      <<d4(text_candidates[i]), -FracScore(ts[text_candidates[i]])>>])
  IN IF text_candidates = <<>> THEN [best_match |-> 0, best_score |-> 0]
     ELSE [best_match |-> sorted[1], best_score |-> FracScore(ts[sorted[1]])]

\* Strategy 2 of _match_by_location
Strategy2(grouped_ocr, gem, target_x, target_y, used_ocr_ids, avg) ==
  Strategy2Pick(grouped_ocr,
                [k \in 1..Len(grouped_ocr) |->
                   _text_similarity(gem.value, grouped_ocr[k].text)],
                target_x, target_y, used_ocr_ids, avg)

\* " ".join(d.text for d in ds)
RECURSIVE JoinSpace(_)
JoinSpace(ds) ==
  IF ds = <<>> THEN <<>>
  ELSE IF Len(ds) = 1 THEN ds[1].text
  ELSE ds[1].text \o <<" ">> \o JoinSpace(Tail(ds))

\* the order in which _try_combine_nearby enumerates the combinations of the
\* positions 1..n: larger ones first, then in the order of _combinations
ComboBefore(c, d) ==
  \/ Cardinality(c) > Cardinality(d)
  \/ /\ Cardinality(c) = Cardinality(d)
     /\ c # d
     /\ LET diff == (c \ d) \cup (d \ c)
        IN (CHOOSE x \in diff : \A y \in diff : x <= y) \in c

\* _try_combine_nearby: `nearby` (the unused raw spans nearer than max_dist),
\* sorted by distance, its first 6; as positions of raw_ocr
Candidates(raw_ocr, target_x, target_y, used, avg) ==
  LET d4(k) == Dist4(raw_ocr[k].bounding_box, target_x, target_y)
      idx == [k \in 1..Len(raw_ocr) |-> k]
      nearby == Filter(idx, {k \in 1..Len(raw_ocr) :
                   raw_ocr[k].oid \notin used /\ Nearer(d4(k), avg, 1, 1)})
      sorted == StableSort(nearby, [i \in 1..Len(nearby) |-> <<d4(nearby[i]), 0>>])
  IN SubSeq(sorted, 1, Min(6, Len(sorted)))

\* _try_combine_nearby: the combination c (a set of positions of candidates),
\* sorted by (ymin, xmin)
ComboSorted(raw_ocr, candidates, c) ==
  LET combo == [i \in 1..Cardinality(c) |->
                  raw_ocr[candidates[CHOOSE p \in c :
                     Cardinality({q \in c : q < p}) = i - 1]]]
  IN StableSort(combo, YXKey(combo))

\* _try_combine_nearby: the OCRDetection it returns for the sorted combination cs,
\* a new object with identity new_oid
CombinedSpan(cs, new_oid) ==
  OCRDetection(JoinSpace(cs), UnionBox(cs), 70000, new_oid,
               UnionAll({cs[i].members : i \in 1..Len(cs)}))

\* _try_combine_nearby: the first, in the order of the enumeration, of the
\* combinations `good` whose similarity passes 0.7; <<>> for None
FirstGood(raw_ocr, candidates, good, new_oid) ==
  IF good = {} THEN <<>>
  ELSE <<CombinedSpan(
           ComboSorted(raw_ocr, candidates,
              CHOOSE x \in good : \A y \in good : x = y \/ ComboBefore(x, y)),
           new_oid)>>

\* DetectionService._try_combine_nearby on its candidates
Combine(raw_ocr, candidates, target_norm, new_oid) ==
  FirstGood(raw_ocr, candidates,
     {c \in (SUBSET (1..Len(candidates))) \ {{}} :
        FracGt(ratio(target_norm,
                     _normalize(JoinSpace(ComboSorted(raw_ocr, candidates, c)))),
               7, 10)},
     new_oid)

\* DetectionService._try_combine_nearby: the combined span, or <<>> for None
_try_combine_nearby(gem, raw_ocr, target_x, target_y, used, avg, new_oid) ==
  Combine(raw_ocr, Candidates(raw_ocr, target_x, target_y, used, avg),
          _normalize(gem.value), new_oid)

\* the Strategy-4 virtual box
virtual_box(target_x, target_y) ==
  Box(target_x - 30, target_x + 30, target_y - 15, target_y + 15)

\* the confidence a VLM entry needs for Strategy 4: gem.confidence > 0.75
FallbackAccepts(confidence) == confidence > 75000

\* target_x, target_y = gem.x_percent * 10, gem.y_percent * 10
target(gem) == <<gem.x_percent * 10, gem.y_percent * 10>>

\* Emit with the text of the matched OCR span as the value of the Dimension
Emit_with_ocr_text(st, k, gem, best_match, best_score, strategy) ==
  IF best_match = <<>> /\ FallbackAccepts(gem.confidence)
    THEN IF ValidBoundingBox(virtual_box(target(gem)[1], target(gem)[2]))
              /\ ValidConfidence(gem.confidence)
           THEN [st EXCEPT !.matched = Append(@,
                   Dimension(0, gem.value, NoZone,
                             virtual_box(target(gem)[1], target(gem)[2]),
                             gem.confidence, 1, 4, {}, k))]
         ELSE [st EXCEPT !.raised = TRUE]
  ELSE IF best_match # <<>>
    THEN IF ValidBoundingBox(best_match[1].bounding_box) /\ ValidConfidence(best_score)
           THEN [matched |-> Append(st.matched,
                    Dimension(0, best_match[1].text, NoZone,
                              best_match[1].bounding_box,
                              best_score, 1, strategy, best_match[1].members, k)),
                 used_ocr_ids |-> st.used_ocr_ids \cup {best_match[1].oid},
                 raised |-> FALSE]
         ELSE [st EXCEPT !.raised = TRUE]
  ELSE st

\* The end of an iteration of the `for gem in gemini_dims` loop of
\* _match_by_location for the entry gem at position k, with the best_match
\* (<<span>>, <<>> for None), best_score and strategy the three strategies left:
\* Strategy 4, or the matched Dimension.  st is (matched, used_ocr_ids, raised):
\* raised is set when the construction of a BoundingBox or Dimension raised
\* ValidationError, which ends the call.
Emit(st, k, gem, best_match, best_score, strategy) ==
  IF best_match = <<>> /\ FallbackAccepts(gem.confidence)
    THEN IF ValidBoundingBox(virtual_box(target(gem)[1], target(gem)[2]))
              /\ ValidConfidence(gem.confidence)
           THEN [st EXCEPT !.matched = Append(@,
                   Dimension(0, gem.value, NoZone,
                             virtual_box(target(gem)[1], target(gem)[2]),
                             gem.confidence, 1, 4, {}, k))]
         ELSE [st EXCEPT !.raised = TRUE]
  ELSE IF best_match # <<>>
    THEN IF ValidBoundingBox(best_match[1].bounding_box) /\ ValidConfidence(best_score)
           THEN [matched |-> Append(st.matched,
                    Dimension(0, gem.value, NoZone, best_match[1].bounding_box,
                              best_score, 1, strategy, best_match[1].members, k)),
                 used_ocr_ids |-> st.used_ocr_ids \cup {best_match[1].oid},
                 raised |-> FALSE]
         ELSE [st EXCEPT !.raised = TRUE]
  ELSE st

\* `if verify_score > 0.5: best_match = combined_match; best_score = verify_score`
\* of Strategy 3; s is what Strategies 1 and 2 left
AfterVerify(st, k, gem, grouped_ocr, s, combined_match, verify_score) ==
  IF FracGt(verify_score, 1, 2)
    THEN Emit(st, k, gem, combined_match, FracScore(verify_score), 3)
  ELSE Emit(st, k, gem,
            IF s.best_match # 0 THEN <<grouped_ocr[s.best_match]>> ELSE <<>>,
            s.best_score, s.strategy)

\* `if combined_match:` of Strategy 3
AfterCombine(st, k, gem, grouped_ocr, s, combined_match) ==
  IF combined_match # <<>>
    THEN AfterVerify(st, k, gem, grouped_ocr, s, combined_match,
                     _text_similarity(gem.value, combined_match[1].text))
  ELSE Emit(st, k, gem,
            IF s.best_match # 0 THEN <<grouped_ocr[s.best_match]>> ELSE <<>>,
            s.best_score, s.strategy)

\* Strategy 3 of _match_by_location: `if not best_match or best_score < 0.5`.
\* A combined span is a new object: its identity is taken after those of the raw
\* and the grouped spans.
Strategy3(st, k, gem, grouped_ocr, raw_ocr, avg, s) ==
  IF s.best_match = 0 \/ s.best_score < 50000
    THEN AfterCombine(st, k, gem, grouped_ocr, s,
           _try_combine_nearby(gem, raw_ocr, target(gem)[1], target(gem)[2],
                               st.used_ocr_ids, avg,
                               Len(raw_ocr) + Len(grouped_ocr) + k))
  ELSE Emit(st, k, gem, <<grouped_ocr[s.best_match]>>, s.best_score, s.strategy)

\* `if text_candidates:` of Strategy 2: s1 is what Strategy 1 left, s2 the first
\* text candidate
AfterStrategy2(s1, s2) ==
  IF s2.best_match # 0
    THEN [best_match |-> s2.best_match, best_score |-> s2.best_score, strategy |-> 2]
  ELSE [best_match |-> s1.best_match, best_score |-> s1.best_score, strategy |-> 1]

\* Strategy 2 of _match_by_location: `if not best_match or best_score < 0.5`
AfterStrategy1(st, k, gem, grouped_ocr, raw_ocr, avg, s1) ==
  Strategy3(st, k, gem, grouped_ocr, raw_ocr, avg,
    IF s1.best_match = 0 \/ s1.best_score < 50000
      THEN AfterStrategy2(s1, Strategy2(grouped_ocr, gem, target(gem)[1],
                                        target(gem)[2], st.used_ocr_ids, avg))
    ELSE [best_match |-> s1.best_match, best_score |-> s1.best_score,
          strategy |-> 1])

\* One iteration of the `for gem in gemini_dims` loop of _match_by_location, for
\* the entry at position k
MatchStep(st, k, grouped_ocr, raw_ocr, gemini_dims, avg) ==
  AfterStrategy1(st, k, gemini_dims[k], grouped_ocr, raw_ocr, avg,
    Strategy1(grouped_ocr, gemini_dims[k], target(gemini_dims[k])[1],
              target(gemini_dims[k])[2], st.used_ocr_ids, avg))

\* a matcher that falls back on the grouped OCR spans when the VLM gave nothing
_match_by_location_ocr_fallback(grouped_ocr, raw_ocr, gemini_dims, avg_height) ==
  LET run[k \in 0..Len(gemini_dims)] ==
        IF k = 0 THEN [matched |-> <<>>, used_ocr_ids |-> {}, raised |-> FALSE]
        ELSE IF run[k - 1].raised THEN run[k - 1]
        ELSE MatchStep(run[k - 1], k, grouped_ocr, raw_ocr, gemini_dims, avg_height)
  IN IF gemini_dims = <<>>
       THEN [matched |-> [i \in 1..Len(grouped_ocr) |->
                            Dimension(0, grouped_ocr[i].text, NoZone,
                                      grouped_ocr[i].bounding_box, 70000, 1, 1,
                                      grouped_ocr[i].members, 0)],
             used_ocr_ids |-> {}, raised |-> FALSE]
     ELSE run[Len(gemini_dims)]

\* DetectionService._match_by_location: (matched, used_ocr_ids, raised)
_match_by_location(grouped_ocr, raw_ocr, gemini_dims, avg_height) ==
  LET run[k \in 0..Len(gemini_dims)] ==
        IF k = 0 THEN [matched |-> <<>>, used_ocr_ids |-> {}, raised |-> FALSE]
        ELSE IF run[k - 1].raised THEN run[k - 1]
        ELSE MatchStep(run[k - 1], k, grouped_ocr, raw_ocr, gemini_dims, avg_height)
  IN run[Len(gemini_dims)]

\* ----------------------------------------------------------- page assembler
STANDARD_GRID_COLUMNS == <<"H", "G", "F", "E", "D", "C", "B", "A">>
STANDARD_GRID_ROWS == <<"4", "3", "2", "1">>

\* a zone that rounds to the nearest column and row instead of cutting off
_calculate_zone_rounded(cx, cy) ==
  LET cols == STANDARD_GRID_COLUMNS
      rows == STANDARD_GRID_ROWS
      col_idx == Min((cx * Len(cols) + 500) \div 1000, Len(cols) - 1)
      row_idx == Min((cy * Len(rows) + 500) \div 1000, Len(rows) - 1)
  IN <<cols[col_idx + 1], rows[row_idx + 1]>>

\* DetectionService._calculate_zone: min(int(c / (1000 / len)), len - 1); 1000 / 8
\* and 1000 / 4 are exact
_calculate_zone(cx, cy) ==
  LET cols == STANDARD_GRID_COLUMNS
      rows == STANDARD_GRID_ROWS
      col_idx == Min((cx * Len(cols)) \div 1000, Len(cols) - 1)
      row_idx == Min((cy * Len(rows)) \div 1000, Len(rows) - 1)
  IN <<cols[col_idx + 1], rows[row_idx + 1]>>

\* the band height of _sort_reading_order
band == 100

\* a sort key without the bands: (center_y, center_x)
ReadingKeyNoBand(d) == <<center_y(d.bounding_box), center_x(d.bounding_box)>>

\* the sort key of _sort_reading_order: (int(center_y) // band, center_x)
ReadingKey(d) == <<center_y(d.bounding_box) \div band, center_x(d.bounding_box)>>

\* DetectionService._sort_reading_order
_sort_reading_order(dims) ==
  StableSort(dims, [i \in 1..Len(dims) |-> ReadingKey(dims[i])])

\* an id counter that restarts on every page
AssignedIdPerPage(current_id, i) == i

\* the id a dimension gets: the `dim.id = current_id; current_id += 1` of the
\* page loop, for the dimension at position i of the page
AssignedId(current_id, i) == current_id + i - 1

\* the `for dim in dimensions` loop of detect_dimensions_multipage: zone, id, page
AssignPage(dimensions, current_id, page_number) ==
  [i \in 1..Len(dimensions) |->
     [dimensions[i] EXCEPT
        !.zone = _calculate_zone(center_x(dimensions[i].bounding_box),
                                 center_y(dimensions[i].bounding_box)),
        !.id = AssignedId(current_id, i),
        !.page = page_number]]

\* `all_dims.extend(pr.dimensions)` over page_results
RECURSIVE Flatten(_)
Flatten(page_results) ==
  IF page_results = <<>> THEN <<>>
  ELSE Head(page_results).dimensions \o Flatten(Tail(page_results))

\* ------------------------------------------------------------ file decoder
\* FileService.max_pages (the constructor's default)
max_pages == 20

\* A message of a FileProcessingResult: None, the page-cap warning
\* "Processed {n} of {total} pages (max {max_pages})", or an error text.
NoMessage == [kind |-> "None"]
PageCapWarning(n, total) == [kind |-> "page_cap", processed |-> n, total |-> total]
ErrorMessage(what) == [kind |-> what]

\* detect_file_type with the extension of the file name looked at before the
\* magic bytes
detect_file_type_by_name_first(magic, ext) ==
  IF ext = "pdf" THEN "pdf"
  ELSE IF ext = "png" THEN "png"
  ELSE IF ext \in {"jpg", "jpeg"} THEN "jpeg"
  ELSE IF magic = "%PDF" THEN "pdf"
  ELSE IF magic = "PNG" THEN "png"
  ELSE IF magic = "JPEG" THEN "jpeg"
  ELSE "unknown"

\* FileService.detect_file_type: the magic bytes first, then the extension of the
\* file name ("" for no file name)
detect_file_type(magic, ext) ==
  IF magic = "%PDF" THEN "pdf"
  ELSE IF magic = "PNG" THEN "png"
  ELSE IF magic = "JPEG" THEN "jpeg"
  ELSE IF ext = "pdf" THEN "pdf"
  ELSE IF ext = "png" THEN "png"
  ELSE IF ext \in {"jpg", "jpeg"} THEN "jpeg"
  ELSE "unknown"

FileProcessingResult(success, file_type, total_pages, pages, error_message) ==
  [success |-> success, file_type |-> file_type, total_pages |-> total_pages,
   pages |-> pages, error_message |-> error_message]

\* A PageImage: its page_number; content stands for the raster (image_bytes)
PageImage(page_number, content) == [page_number |-> page_number, content |-> content]

\* the pages _process_pdf renders: 1..min(total, max_pages)
pages_to_process(total_pages_pdf) == Min(total_pages_pdf, max_pages)

\* _process_pdf with page_num = i, the position enumerate counts from 0
_process_pdf_numbered_from_0(f) ==
  IF ~f.decodes
    THEN FileProcessingResult(FALSE, "pdf", 0, <<>>, ErrorMessage("pdf_error"))
  ELSE
    LET total_pages_pdf == Len(f.contents)
        n == pages_to_process(total_pages_pdf)
    IN FileProcessingResult(TRUE, "pdf", total_pages_pdf,
          [i \in 1..n |-> PageImage(i - 1, f.contents[i])],
          IF total_pages_pdf > max_pages THEN PageCapWarning(n, total_pages_pdf)
          ELSE NoMessage)

\* FileService._process_pdf.  f.decodes is whether fitz and pdf2image read the
\* body; f.contents[i] is what page i shows.
_process_pdf(f) ==
  IF ~f.decodes
    THEN FileProcessingResult(FALSE, "pdf", 0, <<>>, ErrorMessage("pdf_error"))
  ELSE
    LET total_pages_pdf == Len(f.contents)
        n == pages_to_process(total_pages_pdf)
    IN FileProcessingResult(TRUE, "pdf", total_pages_pdf,
          [i \in 1..n |-> PageImage(i, f.contents[i])],
          IF total_pages_pdf > max_pages THEN PageCapWarning(n, total_pages_pdf)
          ELSE NoMessage)

\* FileService._process_image
_process_image(f, file_type) ==
  IF ~f.decodes
    THEN FileProcessingResult(FALSE, file_type, 0, <<>>, ErrorMessage("image_error"))
  ELSE FileProcessingResult(TRUE, file_type, 1, <<PageImage(1, f.contents[1])>>,
                            NoMessage)

\* a decoder that takes a file of unknown type for an image
process_file_unknown_as_image(f) ==
  LET file_type == detect_file_type(f.magic, f.ext) IN
    IF file_type = "pdf" THEN _process_pdf(f)
    ELSE _process_image(f, "png")

\* FileService.process_file
process_file(f) ==
  LET file_type == detect_file_type(f.magic, f.ext) IN
    IF file_type = "pdf" THEN _process_pdf(f)
    ELSE IF file_type \in {"png", "jpeg"} THEN _process_image(f, file_type)
    ELSE FileProcessingResult(FALSE, "unknown", 0, <<>>, ErrorMessage("unsupported"))

\* ----------------------------------------------------- the vision adapters
\* What identify_dimensions_with_locations returns for an entry.  VisionService
\* (vision_service.py) returns {"value", "bbox"}, the bbox in 1/1000 of the page;
\* a vision collaborator of the kind _run_gemini reads from returns
\* {"value", "x", "y", "confidence"}.
\* the first position from i on that holds no whitespace
RECURSIVE SkipSpaces(_, _)
SkipSpaces(s, i) == IF i <= Len(s) /\ s[i] = " " THEN SkipSpaces(s, i + 1) ELSE i

\* the first position from i on that holds no digit
RECURSIVE SkipDigits(_, _)
SkipDigits(s, i) == IF i <= Len(s) /\ s[i] \in Digits THEN SkipDigits(s, i + 1) ELSE i

\* the character at position i, "" past the end
At(s, i) == IF i \in 1..Len(s) THEN s[i] ELSE ""

\* s from position i on starts with w
StartsAt(s, i, w) == i + Len(w) - 1 <= Len(s) /\ SubSeq(s, i, i + Len(w) - 1) = w

\* re.sub(r'⌀|Φ|φ|DIA\s*', 'Ø', value), from position i
RECURSIVE SubDiameter(_, _)
SubDiameter(s, i) ==
  IF i > Len(s) THEN <<>>
  ELSE IF s[i] \in {"diameter", "Phi", "phi"} THEN <<"Oslash">> \o SubDiameter(s, i + 1)
  ELSE IF StartsAt(s, i, <<"D", "I", "A">>)
    THEN <<"Oslash">> \o SubDiameter(s, SkipSpaces(s, i + 3))
  ELSE <<s[i]>> \o SubDiameter(s, i + 1)

\* re.sub(r'(\d)\s*[xX]\s*(\d)', r'\1×\2', value), from position i
RECURSIVE SubTimes(_, _)
SubTimes(s, i) ==
  IF i > Len(s) THEN <<>>
  ELSE IF /\ s[i] \in Digits
          /\ At(s, SkipSpaces(s, i + 1)) \in {"x", "X"}
          /\ At(s, SkipSpaces(s, SkipSpaces(s, i + 1) + 1)) \in Digits
    THEN <<s[i], "times", At(s, SkipSpaces(s, SkipSpaces(s, i + 1) + 1))>>
           \o SubTimes(s, SkipSpaces(s, SkipSpaces(s, i + 1) + 1) + 1)
  ELSE <<s[i]>> \o SubTimes(s, i + 1)

\* re.sub(r'\+/-|±', '±', value), from position i
RECURSIVE SubPlusMinus(_, _)
SubPlusMinus(s, i) ==
  IF i > Len(s) THEN <<>>
  ELSE IF StartsAt(s, i, <<"+", "/", "-">>) THEN <<"pm">> \o SubPlusMinus(s, i + 3)
  ELSE <<s[i]>> \o SubPlusMinus(s, i + 1)

\* the end of a match of \(\s*(\d+)\s*[xX]\s*\) at position i, 0 for no match
QuantityEnd(s, i) ==
  LET d == SkipSpaces(s, i + 1)
      e == SkipDigits(s, d)
      x == SkipSpaces(s, e)
      c == SkipSpaces(s, x + 1)
  IN IF At(s, i) = "(" /\ e > d /\ At(s, x) \in {"x", "X"} /\ At(s, c) = ")"
       THEN c ELSE 0

\* re.sub(r'\(\s*(\d+)\s*[xX]\s*\)', r'(\1x)', value), from position i
RECURSIVE SubQuantity(_, _)
SubQuantity(s, i) ==
  IF i > Len(s) THEN <<>>
  ELSE IF QuantityEnd(s, i) # 0
    THEN <<"(">> \o SubSeq(s, SkipSpaces(s, i + 1),
                           SkipDigits(s, SkipSpaces(s, i + 1)) - 1)
           \o <<"x", ")">> \o SubQuantity(s, QuantityEnd(s, i) + 1)
  ELSE <<s[i]>> \o SubQuantity(s, i + 1)

\* re.sub(r'C-C|c-c|C\.C\.|c\.c\.', 'C/C', value), from position i
RECURSIVE SubCentres(_, _)
SubCentres(s, i) ==
  IF i > Len(s) THEN <<>>
  ELSE IF StartsAt(s, i, <<"C", "-", "C">>) \/ StartsAt(s, i, <<"c", "-", "c">>)
    THEN <<"C", "/", "C">> \o SubCentres(s, i + 3)
  ELSE IF StartsAt(s, i, <<"C", ".", "C", ".">>) \/ StartsAt(s, i, <<"c", ".", "c", ".">>)
    THEN <<"C", "/", "C">> \o SubCentres(s, i + 4)
  ELSE <<s[i]>> \o SubCentres(s, i + 1)

\* re.sub(r'(\d)\s*°', r'\1°', value), from position i
RECURSIVE SubDegree(_, _)
SubDegree(s, i) ==
  IF i > Len(s) THEN <<>>
  ELSE IF s[i] \in Digits /\ At(s, SkipSpaces(s, i + 1)) = "deg"
    THEN <<s[i], "deg">> \o SubDegree(s, SkipSpaces(s, i + 1) + 1)
  ELSE <<s[i]>> \o SubDegree(s, i + 1)

\* VisionService._normalize_dimension_value
_normalize_dimension_value(value) ==
  SubDegree(SubCentres(SubQuantity(SubPlusMinus(SubTimes(SubDiameter(value, 1), 1),
                                                1), 1), 1), 1)

\* max(0, min(1, v)), in 1/1000
Clamp(v) == Max(0, Min(1000, v))

\* the bbox of a clean dimension: each coordinate clamped, then `if xmax <= xmin:
\* xmax = xmin + 0.05` and `if ymax <= ymin: ymax = ymin + 0.03`
CleanBBox(bbox) ==
  Box(Clamp(bbox.xmin),
      IF Clamp(bbox.xmax) <= Clamp(bbox.xmin) THEN Clamp(bbox.xmin) + 50
      ELSE Clamp(bbox.xmax),
      Clamp(bbox.ymin),
      IF Clamp(bbox.ymax) <= Clamp(bbox.ymin) THEN Clamp(bbox.ymin) + 30
      ELSE Clamp(bbox.ymax))

\* an entry of clean_dimensions
VisionEntry(e) ==
  [value |-> _normalize_dimension_value(Strip(e.value)), bbox |-> CleanBBox(e.bbox)]

\* VisionService._parse_dimension_with_location_response, from the entries of
\* data["dimensions"] on: the entries without a value are skipped
RECURSIVE _parse_dimension_with_location_response(_)
_parse_dimension_with_location_response(dimensions) ==
  IF dimensions = <<>> THEN <<>>
  ELSE IF Head(dimensions).value = <<>>
    THEN _parse_dimension_with_location_response(Tail(dimensions))
  ELSE <<VisionEntry(Head(dimensions))>>
         \o _parse_dimension_with_location_response(Tail(dimensions))

LocatedEntry(e) ==
  [value |-> e.value, x |-> (e.bbox.xmin + e.bbox.xmax) \div 20,
   y |-> (e.bbox.ymin + e.bbox.ymax) \div 20, confidence |-> e.confidence]

\* dict.get(key, default)
Get(d, key, default) == IF key \in DOMAIN d THEN d[key] ELSE default

\* the list comprehension of DetectionService._run_gemini
ToGeminiDimension(d) ==
  GeminiDimension(d.value, Get(d, "x", 50), Get(d, "y", 50),
                  Get(d, "confidence", 80000))

MultiPageDetectionResult(success, total_pages, pages, all_dimensions, error_message) ==
  [success |-> success, total_pages |-> total_pages, pages |-> pages,
   all_dimensions |-> all_dimensions, error_message |-> error_message]

\* MAX_DEBUG_ENTRIES
MAX_DEBUG_ENTRIES == 10

\* add_debug_entry: append, keep the last MAX_DEBUG_ENTRIES
add_debug_entry(log, entry) ==
  LET l == Append(log, entry) IN
    IF Len(l) > MAX_DEBUG_ENTRIES
      THEN SubSeq(l, Len(l) - MAX_DEBUG_ENTRIES + 1, Len(l))
    ELSE l

\* ------------------------------------------------------------- the inputs
\* What a page shows: the spans the OCR adapter reads on it (integer boxes in
\* 0..1000, its contract) and the entries the VLM reports for it (value, box in
\* 1/1000 of the page, confidence in 1/100000).
Span(text, box, oid) == OCRDetection(text, box, 95000, oid, {oid})

Entry(value, box, confidence) == [value |-> value, bbox |-> box, confidence |-> confidence]

T_45deg == <<"4", "5", "deg">>
T_R5 == <<"R", "5">>
T_3 == <<"3">>
T_12 == <<"1", "2">>
T_21 == <<"2", "1">>
T_quarter == <<"1", "/", "4", "\"">>
T_3_quarter == <<"3", " ", "1", "/", "4", "\"">>
T_250 == <<"0", ".", "2", "5", "0", "\"">>
T_2X_R5 == <<"2", "X", " ", "R", "5">>
T_188_Wd == <<"0", ".", "1", "8", "8", "\"", " ", "W", "d", ".">>
T_78_Lg_Key == <<"7", "/", "8", "\"", " ", "L", "g", ".", " ", "K", "e", "y">>
T_Teeth == <<"T", "e", "e", "t", "h">>
T_Pitch == <<"P", "i", "t", "c", "h">>
T_080in == <<"0", ".", "0", "8", "0", "i", "n">>
T_21_Teeth == T_21 \o <<" ">> \o T_Teeth
T_080in_Pitch == T_080in \o <<" ">> \o T_Pitch
T_12_5 == <<"1", "2", ".", "5">>
T_2500in == <<"0", ".", "2", "5", "0", "0", "i", "n">>
T_minus_0015 == <<"-", "0", ".", "0", "0", "1", "5">>
T_toleranced == T_2500in \o <<" ">> \o T_minus_0015
T_0_5 == <<"0", ".", "5">>
T_max == <<"m", "a", "x">>
T_M6x1 == <<"M", "6", " ", "x", " ", "1">>
T_DIA_12 == <<"D", "I", "A", " ", "1", "2", " ", "+", "/", "-", "3">>
T_45_deg_4X == <<"4", "5", " ", "deg", " ", "(", " ", "4", " ", "X", ")">>
T_compound == T_188_Wd \o <<" ", "x", " ">> \o T_78_Lg_Key

PageKinds == {"blank", "fallback", "edge", "threshold", "mixed", "twin", "bands",
              "degenerate", "rivals", "compound", "compound_close",
              "stacked", "mixed_near", "mixed_far", "weak",
              "tolerance", "tolerance_close", "phrase", "corner"}

Content(kind) ==
  CASE kind = "blank" -> [ocr |-> <<>>, vlm |-> <<>>]
    [] kind = "fallback" ->
         [ocr |-> <<>>,
          vlm |-> <<Entry(T_45deg, Box(80, 120, 90, 110), 90000)>>]
    [] kind = "edge" ->
         [ocr |-> <<Span(T_R5, Box(4, 16, 494, 506), 1)>>,
          vlm |-> <<Entry(T_R5, Box(0, 20, 490, 510), 90000)>>]
    [] kind = "threshold" ->
         [ocr |-> <<>>,
          vlm |-> <<Entry(T_12, Box(480, 520, 490, 510), 75000),
                    Entry(T_21, Box(180, 220, 790, 810), 50000),
                    Entry(T_3, Box(780, 820, 90, 110), 90000)>>]
    [] kind = "mixed" ->
         [ocr |-> <<Span(T_3, Box(480, 492, 394, 406), 1),
                    Span(T_quarter, Box(498, 520, 394, 406), 2)>>,
          vlm |-> <<Entry(T_3_quarter, Box(480, 520, 390, 410), 90000),
                    Entry(T_3_quarter, Box(480, 520, 390, 410), 90000)>>]
    [] kind = "mixed_near" ->
         [ocr |-> <<Span(T_3, Box(480, 492, 394, 406), 1),
                    Span(T_quarter, Box(504, 526, 394, 406), 2)>>,
          vlm |-> <<Entry(T_3_quarter, Box(480, 526, 390, 410), 90000)>>]
    [] kind = "mixed_far" ->
         [ocr |-> <<Span(T_3, Box(480, 492, 394, 406), 1),
                    Span(T_quarter, Box(522, 544, 394, 406), 2)>>,
          vlm |-> <<Entry(T_3_quarter, Box(480, 544, 390, 410), 90000)>>]
    [] kind = "weak" ->
         [ocr |-> <<Span(T_12_5, Box(560, 600, 494, 506), 1)>>,
          vlm |-> <<Entry(T_45deg, Box(480, 520, 490, 510), 90000)>>]
    [] kind = "tolerance" ->
         [ocr |-> <<Span(T_2500in, Box(400, 460, 494, 506), 1),
                    Span(T_minus_0015, Box(480, 530, 494, 506), 2)>>,
          vlm |-> <<Entry(T_toleranced, Box(400, 500, 490, 510), 90000)>>]
    [] kind = "tolerance_close" ->
         [ocr |-> <<Span(T_2500in, Box(400, 460, 494, 506), 1),
                    Span(T_minus_0015, Box(472, 522, 494, 506), 2)>>,
          vlm |-> <<Entry(T_toleranced, Box(400, 500, 490, 510), 90000)>>]
    [] kind = "phrase" ->
         [ocr |-> <<Span(T_0_5, Box(300, 320, 494, 506), 1),
                    Span(T_max, Box(326, 356, 494, 506), 2),
                    Span(T_250, Box(362, 402, 494, 506), 3),
                    Span(T_250, Box(432, 472, 494, 506), 4)>>,
          vlm |-> <<Entry(T_250, Box(360, 400, 490, 510), 90000),
                    Entry(T_250, Box(430, 470, 490, 510), 90000)>>]
    [] kind = "corner" ->
         [ocr |-> <<>>,
          vlm |-> <<Entry(T_M6x1, Box(-20, 1200, 100, 130), 90000),
                    Entry(T_DIA_12, Box(600, 600, 400, 380), 90000),
                    Entry(<<>>, Box(0, 0, 0, 0), 90000),
                    Entry(T_45_deg_4X, Box(990, 990, 985, 985), 90000)>>]
    [] kind = "twin" ->
         [ocr |-> <<Span(T_250, Box(480, 520, 394, 406), 1),
                    Span(T_250, Box(680, 720, 394, 406), 2)>>,
          vlm |-> <<Entry(T_250, Box(680, 720, 390, 410), 90000),
                    Entry(T_250, Box(480, 520, 390, 410), 90000)>>]
    [] kind = "degenerate" ->
         [ocr |-> <<Span(T_R5, Box(500, 500, 494, 506), 1)>>,
          vlm |-> <<Entry(T_R5, Box(480, 520, 490, 510), 90000)>>]
    [] kind = "rivals" ->
         [ocr |-> <<Span(T_R5, Box(440, 460, 494, 506), 1),
                    Span(T_R5, Box(540, 560, 494, 506), 2)>>,
          vlm |-> <<Entry(T_R5, Box(480, 520, 490, 510), 90000),
                    Entry(T_2X_R5, Box(430, 470, 490, 510), 90000)>>]
    [] kind = "compound" ->
         [ocr |-> <<Span(T_188_Wd, Box(400, 480, 494, 506), 1),
                    Span(T_78_Lg_Key, Box(500, 600, 494, 506), 2)>>,
          vlm |-> <<Entry(T_compound, Box(400, 600, 490, 510), 90000)>>]
    [] kind = "compound_close" ->
         [ocr |-> <<Span(T_188_Wd, Box(412, 492, 494, 506), 1),
                    Span(T_78_Lg_Key, Box(504, 588, 494, 506), 2)>>,
          vlm |-> <<Entry(T_compound, Box(412, 588, 490, 510), 90000)>>]
    [] kind = "stacked" ->
         [ocr |-> <<Span(T_21, Box(490, 510, 472, 484), 1),
                    Span(T_Teeth, Box(480, 520, 486, 498), 2),
                    Span(T_080in, Box(470, 530, 500, 512), 3),
                    Span(T_Pitch, Box(480, 520, 514, 526), 4)>>,
          vlm |-> <<Entry(T_21_Teeth, Box(480, 520, 470, 490), 90000),
                    Entry(T_080in_Pitch, Box(470, 530, 500, 520), 90000)>>]
    [] kind = "bands" ->
         [ocr |-> <<Span(T_21, Box(290, 310, 594, 606), 1),
                    Span(T_12, Box(690, 710, 224, 236), 2)>>,
          vlm |-> <<Entry(T_21, Box(280, 320, 590, 610), 90000),
                    Entry(T_12, Box(680, 720, 220, 240), 90000),
                    Entry(T_45deg, Box(480, 520, 250, 270), 90000)>>]

\* the number of pages of the long PDF of Files
LongPdfPages == 21

\* An uploaded file: its magic bytes, the extension of its name, whether its body
\* decodes, and what each of its pages shows.
File(magic, ext, decodes, contents) ==
  [magic |-> magic, ext |-> ext, decodes |-> decodes, contents |-> contents]

Files ==
  {File("PNG", "png", TRUE, <<"mixed">>),
   File("JPEG", "jpg", TRUE, <<"threshold">>),
   File("PNG", "png", TRUE, <<"edge">>),
   File("PNG", "png", TRUE, <<"degenerate">>),
   File("PNG", "png", TRUE, <<"rivals">>),
   File("PNG", "png", TRUE, <<"compound">>),
   File("PNG", "png", TRUE, <<"compound_close">>),
   File("PNG", "png", TRUE, <<"stacked">>),
   File("PNG", "png", TRUE, <<"mixed_near">>),
   File("PNG", "png", TRUE, <<"weak">>),
   File("PNG", "png", TRUE, <<"corner">>),
   File("PNG", "png", TRUE, <<"tolerance">>),
   File("PNG", "png", TRUE, <<"tolerance_close">>),
   File("PNG", "png", TRUE, <<"phrase">>),
   File("PNG", "png", TRUE, <<"mixed_far">>),
   File("%PDF", "pdf", TRUE, <<"bands", "twin">>),
   File("%PDF", "pdf", TRUE, <<"fallback", "edge">>),
   File("%PDF", "pdf", TRUE, [i \in 1..LongPdfPages |-> "fallback"]),
   File("", "pdf", TRUE, <<"blank">>),
   File("", "txt", TRUE, <<"fallback">>),
   File("", "", TRUE, <<"blank">>),
   File("", "png", TRUE, <<"blank">>),
   File("", "jpeg", TRUE, <<"blank">>),
   File("%PDF", "png", TRUE, <<"blank">>),
   File("%PDF", "", TRUE, <<"blank">>),
   File("PNG", "pdf", TRUE, <<"blank">>),
   File("JPEG", "txt", TRUE, <<"blank">>),
   File("%PDF", "pdf", FALSE, <<>>),
   File("%PDF", "pdf", FALSE, <<"bands", "twin">>),
   File("PNG", "png", FALSE, <<>>)}

\* the pages of a file on which the adapters are let fail
FailPages == 2

\* ------------------------------------------------------------ GridService
\* config.NORMALIZED_COORD_SYSTEM
NORMALIZED_COORD_SYSTEM == 1000

\* edges that leave out the left edge 0 of the page
_calculate_edges_from_1(count) ==
  [i \in 1..(count + 1) |-> (i * NORMALIZED_COORD_SYSTEM) \div count]

\* GridService._calculate_edges: [int(i * 1000 / count) for i in range(count + 1)]
_calculate_edges(count) ==
  [i \in 1..(count + 1) |-> ((i - 1) * NORMALIZED_COORD_SYSTEM) \div count]

ZoneBoundaries(columns, rows, column_edges, row_edges) ==
  [columns |-> columns, rows |-> rows, column_edges |-> column_edges,
   row_edges |-> row_edges]

\* GridService.set_grid_manually: the new _zone_boundaries
set_grid_manually(columns, rows) ==
  ZoneBoundaries(columns, rows, _calculate_edges(Len(columns)),
                 _calculate_edges(Len(rows)))

\* GridService._find_zone_index: the zone of `position`, counted from 1; 0 for None
_find_zone_index(position, edges) ==
  LET inside == {i \in 1..(Len(edges) - 1) :
                   edges[i] <= position /\ position < edges[i + 1]}
  IN IF inside # {} THEN CHOOSE i \in inside : \A j \in inside : i <= j
     ELSE IF Len(edges) > 1 /\ position = edges[Len(edges)] THEN Len(edges) - 1
     ELSE 0

\* GridService.assign_zone; boundaries is _zone_boundaries, <<>> for None.  The
\* label f"{column}{row}" is the sequence of its two characters.
assign_zone(boundaries, bounding_box) ==
  IF boundaries = <<>> THEN NoZone
  ELSE
    LET column_idx == _find_zone_index(center_x(bounding_box),
                                       boundaries[1].column_edges)
        row_idx == _find_zone_index(center_y(bounding_box), boundaries[1].row_edges)
    IN IF column_idx = 0 \/ row_idx = 0 THEN NoZone
       ELSE <<boundaries[1].columns[column_idx], boundaries[1].rows[row_idx]>>

\* GridService.recalculate_zone
recalculate_zone(boundaries, new_bounding_box) == assign_zone(boundaries, new_bounding_box)

GridInfo(detected) == [detected |-> detected]

\* GridService.detect_grid with the grid_data vision_service.detect_grid returned
\* (<<>> for None or an empty dict): the new _zone_boundaries
DetectedBoundaries(boundaries, grid_data) ==
  LET columns == Get(grid_data, "columns", <<>>)
      rows == Get(grid_data, "rows", <<>>)
      b == Get(grid_data, "boundaries", <<>>)
  IN IF DOMAIN grid_data # {} /\ columns # <<>> /\ rows # <<>>
       THEN <<ZoneBoundaries(columns, rows,
                Get(b, "column_edges", _calculate_edges(Len(columns))),
                Get(b, "row_edges", _calculate_edges(Len(rows))))>>
     ELSE boundaries

\* GridService.detect_grid: the GridInfo it returns for grid_data
DetectedInfo(grid_data) ==
  GridInfo(DOMAIN grid_data # {} /\ Get(grid_data, "columns", <<>>) # <<>>
           /\ Get(grid_data, "rows", <<>>) # <<>>)

\* VisionService._parse_grid_response for a reply that reports the labels columns
\* and rows (has_grid true), or no grid (has_grid false, <<>> here): None (<<>>)
\* or the dict with the evenly spaced edges
_parse_grid_response(labels) ==
  IF labels = <<>> THEN <<>>
  ELSE IF labels[1] = <<>> \/ labels[2] = <<>> THEN <<>>
  ELSE [columns |-> labels[1], rows |-> labels[2],
        boundaries |->
          [column_edges |->
             [i \in 1..(Len(labels[1]) + 1) |->
                ((i - 1) * NORMALIZED_COORD_SYSTEM) \div Len(labels[1])],
           row_edges |->
             [i \in 1..(Len(labels[2]) + 1) |->
                ((i - 1) * NORMALIZED_COORD_SYSTEM) \div Len(labels[2])]]]

\* The grids a drawing carries or a caller sets: the labels of the core's default
\* grid, and D_SIZE and A_SIZE of GridService.DEFAULT_GRIDS
GridLabels ==
  {<<STANDARD_GRID_COLUMNS, STANDARD_GRID_ROWS>>,
   <<<<"A", "B", "C", "D", "E", "F", "G", "H">>, <<"1", "2", "3", "4">>>>,
   <<<<"A", "B", "C", "D">>, <<"1", "2", "3", "4">>>>}

\* ------------------------------------------------------------ the request
VARIABLES
  file,            \* the uploaded file of the request
  ocr_service,     \* DetectionService.ocr_service: "None" or "OCRService"
  vision_service,  \* DetectionService.vision_service: "None", "VisionService"
                   \* or "LocatedVision"
  pc,              \* where detect_dimensions_multipage stands
  file_result,     \* the FileProcessingResult
  page_index,      \* the position of the page loop in file_result.pages
  current_id,
  page_results,
  raw_ocr,         \* the locals of _detect_on_page
  grouped_ocr,
  avg_height,
  gemini_results,  \* what identify_dimensions_with_locations returned
  gemini_dims,
  ocr_call,        \* the adapter calls: "idle", "in_flight", "done", "failed"
  vlm_call,
  result,          \* what the request returned: <<>> before it returns
  DEBUG_LOG,
  zone_boundaries, \* GridService._zone_boundaries: <<>> is None
  grid_vision,     \* GridService.vision_service: "None" or "VisionService"
  grid_info,       \* the GridInfo detect_grid returned last: <<>> before
  probe,           \* a dimension the core produced, moved to GridService
  recalculated     \* what recalculate_zone answered, and under which
                   \* _zone_boundaries: <<>> before it is asked

\* A text handed to DetectionService._normalize, and what its calls returned
VARIABLES
  text,            \* the argument of the first call
  normalized       \* the results, each call given the result of the one before

vars == <<file, ocr_service, vision_service, pc, file_result, page_index,
          current_id, page_results, raw_ocr, grouped_ocr, avg_height,
          gemini_results, gemini_dims, ocr_call, vlm_call, result, DEBUG_LOG,
          zone_boundaries, grid_vision, grid_info, probe, recalculated,
          text, normalized>>

text_vars == <<text, normalized>>

grid_vars == <<zone_boundaries, grid_vision, grid_info, probe, recalculated>>

request_vars == <<file, ocr_service, vision_service, pc, file_result, page_index,
                  current_id, page_results, raw_ocr, grouped_ocr, avg_height,
                  gemini_results, gemini_dims, ocr_call, vlm_call, result,
                  DEBUG_LOG>>

page_vars == <<raw_ocr, grouped_ocr, avg_height, gemini_results, gemini_dims,
               ocr_call, vlm_call>>

NoAvg == [s |-> 0, n |-> 1]

PageImageNow == file_result[1].pages[page_index]

\* The grid the GridService given to DetectionService(grid_service=...) has
\* discovered on the drawing: the labels of D_SIZE, A..H from the left and 1..4
\* from the top.  <<>> in zone_boundaries is no grid service, or no grid found.
DiscoveredGrid ==
  set_grid_manually(<<"A", "B", "C", "D", "E", "F", "G", "H">>,
                    <<"1", "2", "3", "4">>)

Init ==
  /\ file \in Files
  /\ ocr_service \in {"None", "OCRService"}
  /\ vision_service \in {"None", "VisionService", "LocatedVision"}
  /\ pc = "process_file"
  /\ file_result = <<>>
  /\ page_index = 0
  /\ current_id = 1
  /\ page_results = <<>>
  /\ raw_ocr = <<>>
  /\ grouped_ocr = <<>>
  /\ avg_height = NoAvg
  /\ gemini_results = <<>>
  /\ gemini_dims = <<>>
  /\ ocr_call = "idle"
  /\ vlm_call = "idle"
  /\ result = <<>>
  /\ DEBUG_LOG = <<>>
  /\ zone_boundaries \in {<<>>, <<DiscoveredGrid>>}
  /\ grid_vision = "None"
  /\ grid_info = <<>>
  /\ probe = <<>>
  /\ recalculated = <<>>
  /\ text = <<>>
  /\ normalized = <<>>

\* detect_dimensions_multipage, to the page loop: process_file; a failed
\* FileProcessingResult is logged and returned as a failed result
ProcessFile ==
  /\ pc = "process_file"
  /\ LET r == process_file(file) IN
       /\ file_result' = <<r>>
       /\ IF ~r.success
            THEN /\ DEBUG_LOG' = add_debug_entry(DEBUG_LOG,
                                    [error |-> r.error_message, total |-> 0])
                 /\ result' = <<MultiPageDetectionResult(FALSE, 0, <<>>, <<>>,
                                                         r.error_message)>>
                 /\ pc' = "returned"
                 /\ page_index' = page_index
          ELSE /\ UNCHANGED <<DEBUG_LOG, result>>
               /\ page_index' = 1
               /\ pc' = "run_ocr"
  /\ UNCHANGED <<file, ocr_service, vision_service, current_id, page_results>>
  /\ UNCHANGED page_vars
  /\ UNCHANGED grid_vars
  /\ UNCHANGED text_vars

\* _run_ocr without an OCR service: []
OcrSkip ==
  /\ pc = "run_ocr"
  /\ ocr_service = "None"
  /\ raw_ocr' = <<>>
  /\ pc' = "group"
  /\ UNCHANGED <<file, ocr_service, vision_service, file_result, page_index,
                 current_id, page_results, grouped_ocr, avg_height, gemini_results,
                 gemini_dims, ocr_call, vlm_call, result, DEBUG_LOG>>
  /\ UNCHANGED grid_vars
  /\ UNCHANGED text_vars

\* _run_ocr: `await self.ocr_service.detect_text(image_bytes)` is started
OcrStart ==
  /\ pc = "run_ocr"
  /\ ocr_service # "None"
  /\ ocr_call' = "in_flight"
  /\ pc' = "await_ocr"
  /\ UNCHANGED <<file, ocr_service, vision_service, file_result, page_index,
                 current_id, page_results, raw_ocr, grouped_ocr, avg_height,
                 gemini_results, gemini_dims, vlm_call, result, DEBUG_LOG>>
  /\ UNCHANGED grid_vars
  /\ UNCHANGED text_vars

\* detect_text returns the spans of the page
OcrReturn ==
  /\ pc = "await_ocr"
  /\ raw_ocr' = Content(PageImageNow.content).ocr
  /\ ocr_call' = "done"
  /\ pc' = "group"
  /\ UNCHANGED <<file, ocr_service, vision_service, file_result, page_index,
                 current_id, page_results, grouped_ocr, avg_height, gemini_results,
                 gemini_dims, vlm_call, result, DEBUG_LOG>>
  /\ UNCHANGED grid_vars
  /\ UNCHANGED text_vars

\* detect_text raises (an error of the service, a timeout): `except Exception`
\* of _run_ocr returns []
OcrFail ==
  /\ pc = "await_ocr"
  /\ page_index <= FailPages
  /\ raw_ocr' = <<>>
  /\ ocr_call' = "failed"
  /\ pc' = "group"
  /\ UNCHANGED <<file, ocr_service, vision_service, file_result, page_index,
                 current_id, page_results, grouped_ocr, avg_height, gemini_results,
                 gemini_dims, vlm_call, result, DEBUG_LOG>>
  /\ UNCHANGED grid_vars
  /\ UNCHANGED text_vars

\* _detect_on_page between its two awaits: the average height and the grouping
Group ==
  /\ pc = "group"
  /\ avg_height' = _calculate_avg_char_height(raw_ocr)
  /\ grouped_ocr' = _group_ocr(raw_ocr, _calculate_avg_char_height(raw_ocr))
  /\ pc' = "run_gemini"
  /\ UNCHANGED <<file, ocr_service, vision_service, file_result, page_index,
                 current_id, page_results, raw_ocr, gemini_results, gemini_dims,
                 ocr_call, vlm_call, result, DEBUG_LOG>>
  /\ UNCHANGED grid_vars
  /\ UNCHANGED text_vars

\* _run_gemini without a vision service: []
GeminiSkip ==
  /\ pc = "run_gemini"
  /\ vision_service = "None"
  /\ gemini_dims' = <<>>
  /\ pc' = "match"
  /\ UNCHANGED <<file, ocr_service, vision_service, file_result, page_index,
                 current_id, page_results, raw_ocr, grouped_ocr, avg_height,
                 gemini_results, ocr_call, vlm_call, result, DEBUG_LOG>>
  /\ UNCHANGED grid_vars
  /\ UNCHANGED text_vars

\* _run_gemini: `await self.vision_service.identify_dimensions_with_locations(...)`
\* is started
GeminiStart ==
  /\ pc = "run_gemini"
  /\ vision_service # "None"
  /\ vlm_call' = "in_flight"
  /\ pc' = "await_gemini"
  /\ UNCHANGED <<file, ocr_service, vision_service, file_result, page_index,
                 current_id, page_results, raw_ocr, grouped_ocr, avg_height,
                 gemini_results, gemini_dims, ocr_call, result, DEBUG_LOG>>
  /\ UNCHANGED grid_vars
  /\ UNCHANGED text_vars

\* what the vision service in use returns for the page
Results(service, content) ==
  IF service = "VisionService"
    THEN _parse_dimension_with_location_response(Content(content).vlm)
  ELSE [k \in 1..Len(Content(content).vlm) |-> LocatedEntry(Content(content).vlm[k])]

\* identify_dimensions_with_locations returns; _run_gemini builds its
\* GeminiDimensions
GeminiReturn ==
  /\ pc = "await_gemini"
  /\ gemini_results' = Results(vision_service, PageImageNow.content)
  /\ gemini_dims' = [k \in 1..Len(gemini_results') |->
                       ToGeminiDimension(gemini_results'[k])]
  /\ vlm_call' = "done"
  /\ pc' = "match"
  /\ UNCHANGED <<file, ocr_service, vision_service, file_result, page_index,
                 current_id, page_results, raw_ocr, grouped_ocr, avg_height,
                 ocr_call, result, DEBUG_LOG>>
  /\ UNCHANGED grid_vars
  /\ UNCHANGED text_vars

\* identify_dimensions_with_locations raises (VisionServiceError, a timeout):
\* `except Exception` of _run_gemini returns []
GeminiFail ==
  /\ pc = "await_gemini"
  /\ page_index <= FailPages
  /\ gemini_dims' = <<>>
  /\ vlm_call' = "failed"
  /\ pc' = "match"
  /\ UNCHANGED <<file, ocr_service, vision_service, file_result, page_index,
                 current_id, page_results, raw_ocr, grouped_ocr, avg_height,
                 gemini_results, ocr_call, result, DEBUG_LOG>>
  /\ UNCHANGED grid_vars
  /\ UNCHANGED text_vars

\* A PageDetectionResult; image_base64 is the raster of the page.  ocr and vlm
\* (how the two adapter calls of the page ended), raw (the raw OCR spans of the
\* page) and entries (its GeminiDimensions) are history fields, read by the
\* properties only.
PageDetectionResult(page_number, dimensions, image_base64, ocr, vlm, raw, entries) ==
  [page_number |-> page_number, dimensions |-> dimensions, grid_detected |-> TRUE,
   image_base64 |-> image_base64,
   ocr |-> ocr, vlm |-> vlm, raw |-> raw, entries |-> entries]

\* The body of the page loop after _detect_on_page returned `dimensions` (zone, id
\* and page set): the PageDetectionResult; then the next page
ClosePage(dimensions) ==
  /\ page_results' = Append(page_results,
        PageDetectionResult(PageImageNow.page_number, dimensions,
                            PageImageNow.content,
                            ocr_call, vlm_call, raw_ocr, gemini_dims))
  /\ current_id' = current_id + Len(dimensions)
  /\ raw_ocr' = <<>>
  /\ grouped_ocr' = <<>>
  /\ avg_height' = NoAvg
  /\ gemini_results' = <<>>
  /\ gemini_dims' = <<>>
  /\ ocr_call' = "idle"
  /\ vlm_call' = "idle"
  /\ IF page_index < Len(file_result[1].pages)
       THEN page_index' = page_index + 1 /\ pc' = "run_ocr"
     ELSE page_index' = page_index /\ pc' = "assemble"

\* _detect_on_page after the matcher returned m: a ValidationError of the matcher
\* leaves the request; else the sort, then zone, id and page of every dimension
Matched(m) ==
  IF m.raised
    THEN /\ pc' = "raised"
         /\ UNCHANGED <<page_index, current_id, page_results>>
         /\ UNCHANGED page_vars
  ELSE ClosePage(AssignPage(_sort_reading_order(m.matched), current_id,
                            PageImageNow.page_number))

\* The rest of _detect_on_page and of the body of the page loop: the matcher, the
\* sort, zone, id and page of every dimension, the PageDetectionResult
MatchPage ==
  /\ pc = "match"
  /\ Matched(_match_by_location(grouped_ocr, raw_ocr, gemini_dims, avg_height))
  /\ UNCHANGED <<file, ocr_service, vision_service, file_result, result, DEBUG_LOG>>
  /\ UNCHANGED grid_vars
  /\ UNCHANGED text_vars

\* detect_dimensions_multipage after the page loop: all_dims, the debug entry,
\* the MultiPageDetectionResult (its error_message keeps the default None)
Return ==
  /\ pc = "assemble"
  /\ LET all_dims == Flatten(page_results) IN
       /\ DEBUG_LOG' = add_debug_entry(DEBUG_LOG,
                          [error |-> NoMessage, total |-> Len(all_dims)])
       /\ result' = <<MultiPageDetectionResult(TRUE, file_result[1].total_pages,
                                               page_results, all_dims, NoMessage)>>
  /\ pc' = "returned"
  /\ UNCHANGED <<file, ocr_service, vision_service, file_result, page_index,
                 current_id, page_results>>
  /\ UNCHANGED page_vars
  /\ UNCHANGED grid_vars
  /\ UNCHANGED text_vars

Next ==
  \/ ProcessFile
  \/ OcrSkip
  \/ OcrStart
  \/ OcrReturn
  \/ OcrFail
  \/ Group
  \/ GeminiSkip
  \/ GeminiStart
  \/ GeminiReturn
  \/ GeminiFail
  \/ MatchPage
  \/ Return

Spec == Init /\ [][Next]_vars

\* ------------------------------------------------- GridService, its steps
\* The boxes of the dimensions handed to GridService: points and Strategy-4 sized
\* boxes at and next to the edges of the zones and of the page
ProbeX == {0, 124, 125, 249, 250, 374, 375, 499, 500, 624, 625, 749, 750, 874,
           875, 940, 999, 1000}
ProbeY == {0, 249, 250, 499, 500, 749, 750, 970, 999, 1000}
ProbeSizes == {<<0, 0>>, <<1, 1>>, <<60, 30>>}

ProbeBoxes ==
  {b \in {Box(x, x + wh[1], y, y + wh[2]) : x \in ProbeX, y \in ProbeY,
                                            wh \in ProbeSizes} :
     ValidBoundingBox(b)}

\* a dimension as the core produces it for the box b: out of the matcher, through
\* the page loop
Produced(b) ==
  AssignPage(<<Dimension(0, T_R5, NoZone, b, 90000, 1, 4, {}, 1)>>, 1, 1)[1]

InitGrid ==
  /\ file = File("", "txt", TRUE, <<"blank">>)
  /\ ocr_service = "None"
  /\ vision_service = "None"
  /\ pc = "grid"
  /\ file_result = <<>>
  /\ page_index = 0
  /\ current_id = 1
  /\ page_results = <<>>
  /\ raw_ocr = <<>>
  /\ grouped_ocr = <<>>
  /\ avg_height = NoAvg
  /\ gemini_results = <<>>
  /\ gemini_dims = <<>>
  /\ ocr_call = "idle"
  /\ vlm_call = "idle"
  /\ result = <<>>
  /\ DEBUG_LOG = <<>>
  /\ zone_boundaries = <<>>
  /\ grid_vision \in {"None", "VisionService"}
  /\ grid_info = <<>>
  /\ probe \in {<<Produced(b)>> : b \in ProbeBoxes}
  /\ recalculated = <<>>
  /\ text = <<>>
  /\ normalized = <<>>

\* GridService.set_grid_manually(columns, rows)
SetGridManually ==
  /\ \E g \in GridLabels : zone_boundaries' = <<set_grid_manually(g[1], g[2])>>
  /\ UNCHANGED <<grid_vision, grid_info, probe, recalculated>>
  /\ UNCHANGED request_vars
  /\ UNCHANGED text_vars

\* GridService.detect_grid without a vision service: GridInfo(detected=False)
DetectGridNoService ==
  /\ grid_vision = "None"
  /\ grid_info' = <<GridInfo(FALSE)>>
  /\ UNCHANGED <<zone_boundaries, grid_vision, probe, recalculated>>
  /\ UNCHANGED request_vars
  /\ UNCHANGED text_vars

\* GridService.detect_grid: vision_service.detect_grid returns None (no grid, or a
\* failed call) or the grid it read
DetectGrid ==
  /\ grid_vision = "VisionService"
  /\ \E seen \in {<<>>} \cup GridLabels :
       /\ zone_boundaries' = DetectedBoundaries(zone_boundaries,
                                                _parse_grid_response(seen))
       /\ grid_info' = <<DetectedInfo(_parse_grid_response(seen))>>
  /\ UNCHANGED <<grid_vision, probe, recalculated>>
  /\ UNCHANGED request_vars
  /\ UNCHANGED text_vars

\* GridService.recalculate_zone(d.bounding_box) for the dimension handed over
RecalculateZone ==
  /\ recalculated' = <<[zone |-> recalculate_zone(zone_boundaries,
                                                  probe[1].bounding_box),
                        under |-> zone_boundaries]>>
  /\ UNCHANGED <<zone_boundaries, grid_vision, grid_info, probe>>
  /\ UNCHANGED request_vars
  /\ UNCHANGED text_vars

NextGrid ==
  \/ SetGridManually
  \/ DetectGridNoService
  \/ DetectGrid
  \/ RecalculateZone

SpecGrid == InitGrid /\ [][NextGrid]_vars

\* ------------------------------------------------- _normalize, its calls
\* the longest text handed to _normalize
TextLen == 3

\* the characters of the texts: a capital, the two o with stroke, the characters
\* _normalize replaces or removes, and characters it keeps
TextAlphabet == {"A", "Oslash", "oslash", "\"", "'", " ", "endash", "-", "deg", "5"}

Texts == UNION {[1..n -> TextAlphabet] : n \in 0..TextLen}

InitNormalize ==
  /\ file = File("", "txt", TRUE, <<"blank">>)
  /\ ocr_service = "None"
  /\ vision_service = "None"
  /\ pc = "normalize"
  /\ file_result = <<>>
  /\ page_index = 0
  /\ current_id = 1
  /\ page_results = <<>>
  /\ raw_ocr = <<>>
  /\ grouped_ocr = <<>>
  /\ avg_height = NoAvg
  /\ gemini_results = <<>>
  /\ gemini_dims = <<>>
  /\ ocr_call = "idle"
  /\ vlm_call = "idle"
  /\ result = <<>>
  /\ DEBUG_LOG = <<>>
  /\ zone_boundaries = <<>>
  /\ grid_vision = "None"
  /\ grid_info = <<>>
  /\ probe = <<>>
  /\ recalculated = <<>>
  /\ text \in Texts
  /\ normalized = <<>>

\* self._normalize(text), then self._normalize(...) of what it returned
Normalize ==
  /\ Len(normalized) < 2
  /\ normalized' = Append(normalized,
                          _normalize(IF normalized = <<>> THEN text
                                     ELSE normalized[Len(normalized)]))
  /\ UNCHANGED text
  /\ UNCHANGED request_vars
  /\ UNCHANGED grid_vars

NextNormalize == Normalize

SpecNormalize == InitNormalize /\ [][NextNormalize]_vars

\* ------------------------------------------------------------ properties
\* the request returned a successful MultiPageDetectionResult
Succeeded == pc = "returned" /\ result[1].success

\* (page, band, center_x) of a dimension, the band from the box itself
PageBandX(d) ==
  <<d.page, ((d.bounding_box.ymin + d.bounding_box.ymax) \div 2) \div 100,
    (d.bounding_box.xmin + d.bounding_box.xmax) \div 2>>

TripleLeq(a, b) ==
  \/ a[1] < b[1]
  \/ a[1] = b[1] /\ a[2] < b[2]
  \/ a[1] = b[1] /\ a[2] = b[2] /\ a[3] <= b[3]

\* C1: after a successful request the ids of all_dimensions are exactly 1..N,
\* N = len(all_dimensions): every id occurs once, none is missing, and the counter
\* runs on across the pages.
C1_IdsDense ==
  Succeeded =>
    LET ds == result[1].all_dimensions IN
      /\ {ds[i].id : i \in 1..Len(ds)} = 1..Len(ds)
      /\ \A i, j \in 1..Len(ds) : i # j => ds[i].id # ds[j].id

\* C1 happens: a successful request of two pages, two or more dimensions on the
\* first and one or more on the second, the first id of the second page following
\* the last id of the first
C1_Witness ==
  /\ Succeeded
  /\ Len(result[1].pages) = 2
  /\ Len(result[1].pages[1].dimensions) >= 2
  /\ Len(result[1].pages[2].dimensions) >= 1
  /\ result[1].pages[2].dimensions[1].id = Len(result[1].pages[1].dimensions) + 1

\* C2: no OCR span contributes to more than one fused dimension of a page: two
\* dimensions of a page never rest on a common raw OCR span.
C2_SpanUsedOnce ==
  \A p \in 1..Len(page_results) :
    \A i, j \in 1..Len(page_results[p].dimensions) :
      i # j => page_results[p].dimensions[i].support
                 \cap page_results[p].dimensions[j].support = {}

C4_ReadingOrder ==
  Succeeded =>
    LET ds == result[1].all_dimensions IN
      \A i, j \in 1..Len(ds) :
        i < j => TripleLeq(PageBandX(ds[i]), PageBandX(ds[j])) /\ ds[i].id < ds[j].id

\* C4 happens: a successful result in which the matcher's order was changed by
\* the sort: of two dimensions in one band of one page, the one to the left has
\* the greater center_y and comes from the later VLM entry
C4_Witness ==
  /\ Succeeded
  /\ \E i, j \in 1..Len(result[1].all_dimensions) :
       LET a == result[1].all_dimensions[i]
           b == result[1].all_dimensions[j]
       IN /\ i < j
          /\ a.page = b.page
          /\ PageBandX(a)[2] = PageBandX(b)[2]
          /\ PageBandX(a)[3] < PageBandX(b)[3]
          /\ center_y(a.bounding_box) > center_y(b.bounding_box)
          /\ a.entry > b.entry
  /\ \E i \in 1..Len(result[1].all_dimensions) :
       result[1].all_dimensions[i].page = 2

\* the uploaded file is a PDF that decodes and has more than max_pages pages
LongPdf ==
  /\ detect_file_type(file.magic, file.ext) = "pdf"
  /\ file.decodes
  /\ Len(file.contents) > max_pages

\* C5: for a PDF of N > max_pages (20) pages exactly 20 pages are processed,
\* total_pages is N, and the result returned to the caller carries a warning that
\* names the total N.
C5_PageCapWarning ==
  (pc = "returned" /\ LongPdf) =>
    /\ result[1].success
    /\ Len(result[1].pages) = 20
    /\ result[1].total_pages = Len(file.contents)
    /\ result[1].error_message.kind = "page_cap"
    /\ result[1].error_message.total = Len(file.contents)

\* an adapter call has ended
Completed(call) == call \in {"done", "failed"}

\* C6: on every page the OCR call and the VLM call are both started before either
\* has ended, and no other step (the grouping) runs between the end of one and
\* the end of the other.
C6_CallsInFlightTogether ==
  (ocr_service # "None" /\ vision_service # "None") =>
    /\ Completed(ocr_call) => vlm_call # "idle"
    /\ Completed(vlm_call) => ocr_call # "idle"
    /\ pc = "group" => Completed(ocr_call) /\ Completed(vlm_call)

\* the location, in percent of the page, that the adapter returned for an entry:
\* its x and y, or the centre of its bbox
ReportedLocation(e) ==
  IF "x" \in DOMAIN e THEN <<e.x, e.y>>
  ELSE <<(e.bbox.xmin + e.bbox.xmax) \div 20, (e.bbox.ymin + e.bbox.ymax) \div 20>>

\* C7: for every VLM entry the matcher's target is 10 x the location the adapter
\* returned for that entry; entries reported at different places get different
\* targets; the adapter's confidence reaches the matcher.
C7_TargetIsReportedLocation ==
  (pc = "match" /\ vlm_call = "done") =>
    /\ Len(gemini_dims) = Len(gemini_results)
    /\ \A k \in 1..Len(gemini_dims) :
         /\ target(gemini_dims[k]) = <<10 * ReportedLocation(gemini_results[k])[1],
                                      10 * ReportedLocation(gemini_results[k])[2]>>
         /\ "confidence" \in DOMAIN gemini_results[k] =>
              gemini_dims[k].confidence = gemini_results[k].confidence
    /\ \A k, l \in 1..Len(gemini_dims) :
         ReportedLocation(gemini_results[k]) # ReportedLocation(gemini_results[l])
           => target(gemini_dims[k]) # target(gemini_dims[l])

HoldsDefaultGrid(boundaries) ==
  /\ boundaries # <<>>
  /\ boundaries[1].columns = STANDARD_GRID_COLUMNS
  /\ boundaries[1].rows = STANDARD_GRID_ROWS

C11_VlmFailureTolerated ==
  /\ \A p \in 1..Len(page_results) :
       /\ page_results[p].page_number = p
       /\ page_results[p].image_base64 = file_result[1].pages[p].content
       /\ (page_results[p].vlm = "failed" \/ page_results[p].entries = <<>>)
            => page_results[p].dimensions = <<>>
  /\ (pc = "match" /\ (vlm_call = "failed" \/ gemini_dims = <<>>)) =>
       ~_match_by_location(grouped_ocr, raw_ocr, gemini_dims, avg_height).raised
  /\ Succeeded =>
       /\ result[1].pages = page_results
       /\ Len(result[1].pages) = Len(file_result[1].pages)
       /\ {result[1].all_dimensions[i].id :
             i \in 1..Len(result[1].all_dimensions)}
            = 1..Len(result[1].all_dimensions)

\* C11 happens: a successful request whose first page has OCR spans and a failed
\* VLM call, and whose second page carries the ids 1, 2
C11_Witness ==
  /\ Succeeded
  /\ Len(result[1].pages) = 2
  /\ result[1].pages[1].vlm = "failed"
  /\ result[1].pages[1].raw # <<>>
  /\ result[1].pages[1].dimensions = <<>>
  /\ result[1].pages[1].image_base64 = "bands"
  /\ Len(result[1].pages[2].dimensions) = 2
  /\ result[1].pages[2].dimensions[1].id = 1

\* the decoder fails on the uploaded file: its type is unknown, or its body does
\* not decode or render
DecoderFails ==
  detect_file_type(file.magic, file.ext) = "unknown" \/ ~file.decodes

\* C12: when the decoder fails the request returns a failure that carries an
\* error message, no page and no dimension, and neither adapter is called.
C12_DecoderFailureIsRequestFailure ==
  (DecoderFails /\ pc # "process_file") =>
    /\ pc = "returned"
    /\ ~result[1].success
    /\ result[1].error_message # NoMessage
    /\ result[1].error_message = file_result[1].error_message
    /\ result[1].total_pages = 0
    /\ result[1].pages = <<>>
    /\ result[1].all_dimensions = <<>>
    /\ ocr_call = "idle" /\ vlm_call = "idle"
    /\ page_index = 0 /\ page_results = <<>>

\* C12 happens: the request on a PDF with pages whose rendering fails has
\* returned the failure
C12_Witness ==
  /\ pc = "returned"
  /\ file.magic = "%PDF" /\ ~file.decodes /\ file.contents # <<>>
  /\ ~result[1].success
  /\ result[1].error_message = ErrorMessage("pdf_error")

\* a box of zero area
Degenerate(b) == b.xmin = b.xmax \/ b.ymin = b.ymax

\* the ids of the degenerate spans among the raw OCR spans raw
DegenerateIds(raw) == {raw[i].oid : i \in {j \in 1..Len(raw) : Degenerate(raw[j].bounding_box)}}

\* C13: a degenerate OCR span is dropped before grouping: no group of the grouper
\* holds one, and no dimension of a page rests on one.
C13_DegenerateDropped ==
  /\ \A g \in 1..Len(grouped_ocr) :
       grouped_ocr[g].members \cap DegenerateIds(raw_ocr) = {}
  /\ \A p \in 1..Len(page_results) :
       \A i \in 1..Len(page_results[p].dimensions) :
         page_results[p].dimensions[i].support
           \cap DegenerateIds(page_results[p].raw) = {}

\* the (value, bounding_box) pairs of a list of dimensions, in its order
ValueBoxes(dims) ==
  [i \in 1..Len(dims) |-> <<dims[i].value, dims[i].bounding_box>>]

\* _detect_on_page after the matcher returned m: the sort; <<"raised">> when the
\* matcher raised
SortedPairs(m) ==
  IF m.raised THEN <<"raised">> ELSE ValueBoxes(_sort_reading_order(m.matched))

\* _detect_on_page from the grouping on, for the raw spans and the GeminiDimensions
\* the two adapters returned
DetectWith(raw, gems, avg) ==
  SortedPairs(_match_by_location(_group_ocr(raw, avg), raw, gems, avg))

\* _detect_on_page on what the two adapters returned: the page result
_detect_on_page(raw, gems) == DetectWith(raw, gems, _calculate_avg_char_height(raw))

\* a list in the order of a permutation f of its positions
Permuted(s, f) == [i \in 1..Len(s) |-> s[f[i]]]

\* C14: the page result, the (value, bbox) pairs in reading order, is the same
\* for every permutation of the OCR spans and of the VLM entries of the page.
C14_PermutationInvariant ==
  pc = "match" =>
    \A f \in Permutations(1..Len(raw_ocr)), g \in Permutations(1..Len(gemini_dims)) :
      _detect_on_page(Permuted(raw_ocr, f), Permuted(gemini_dims, g))
        = _detect_on_page(raw_ocr, gemini_dims)

\* C15: the core keeps no state from one request to the next: when a request has
\* ended, the module-level state (DEBUG_LOG) is what it was before the request.
C15_NoCrossRequestState ==
  pc \in {"returned", "raised"} => DEBUG_LOG = <<>>

\* the column and the row the default grid gives a centre: columns H..A from the
\* left, rows 4..1 from the top, the last ones holding the edge 1000
DefaultColumn(cx) ==
  <<"H", "G", "F", "E", "D", "C", "B", "A">>[Min((cx * 8) \div 1000, 7) + 1]

DefaultRow(cy) == <<"4", "3", "2", "1">>[Min((cy * 4) \div 1000, 3) + 1]

\* the dimension handed to GridService is as the core produced it, GridService
\* not yet used
FreshProbe == zone_boundaries = <<>> /\ grid_info = <<>> /\ recalculated = <<>>

\* C16: the zone the core assigns is a label of the default grid, the column
\* columns[min(floor(center_x * 8 / 1000), 7)] followed by the row
\* rows[min(floor(center_y * 4 / 1000), 3)], for every centre in [0, 1000]^2.
C16_ZoneOfDefaultGrid ==
  pc = "grid" =>
    /\ probe[1].zone[1] \in {"A", "B", "C", "D", "E", "F", "G", "H"}
    /\ probe[1].zone[2] \in {"1", "2", "3", "4"}
    /\ probe[1].zone = <<DefaultColumn(center_x(probe[1].bounding_box)),
                         DefaultRow(center_y(probe[1].bounding_box))>>
    /\ FreshProbe =>
         /\ \A cx \in 0..1000 :
              _calculate_zone(cx, center_y(probe[1].bounding_box))[1]
                = DefaultColumn(cx)
         /\ \A cy \in 0..1000 :
              _calculate_zone(center_x(probe[1].bounding_box), cy)[2]
                = DefaultRow(cy)

\* C16 happens: a dimension whose centre lies on the right and lower edge of the
\* page, (1000, 1000), carries the zone A1, and one centred on the edge 250
\* between two rows the zone of the lower row, 3
C16_Witness ==
  /\ pc = "grid"
  /\ \/ /\ center_x(probe[1].bounding_box) = 1000
        /\ center_y(probe[1].bounding_box) = 1000
        /\ probe[1].zone = <<"A", "1">>
     \/ /\ center_y(probe[1].bounding_box) = 250
        /\ center_x(probe[1].bounding_box) = 374
        /\ probe[1].zone = <<"F", "3">>

\* C17: when the grid service given to the core has discovered the grid of the
\* drawing, the zone of every dimension is the label of the discovered grid for
\* its box, not the label of the default grid H..A / 4..1.
C17_DiscoveredGridOverrides ==
  zone_boundaries # <<>> =>
    \A p \in 1..Len(page_results) :
      \A i \in 1..Len(page_results[p].dimensions) :
        page_results[p].dimensions[i].zone
          = assign_zone(zone_boundaries, page_results[p].dimensions[i].bounding_box)

\* the page shows the two spans '0.188" Wd.' and '7/8" Lg. Key' side by side on
\* one line, and both adapters answered for it
CompoundPage(page) ==
  /\ page.image_base64 \in {"compound", "compound_close"}
  /\ page.ocr = "done" /\ page.vlm = "done"

\* C18: two OCR spans '0.188" Wd.' and '7/8" Lg. Key' side by side on one line,
\* their gap within H_GAP (40 for avg_h = 12), and one VLM entry with the whole
\* compound value located at them give exactly one dimension, with the VLM value
\* and id 1, whose box is the union of the boxes of the two spans.
C18_CompoundIsOneDimension ==
  \A p \in 1..Len(page_results) :
    CompoundPage(page_results[p]) =>
      /\ Len(page_results[p].dimensions) = 1
      /\ page_results[p].dimensions[1].value = T_compound
      /\ page_results[p].dimensions[1].id = 1
      /\ page_results[p].dimensions[1].bounding_box
           = Box(Min(page_results[p].raw[1].bounding_box.xmin,
                     page_results[p].raw[2].bounding_box.xmin),
                 Max(page_results[p].raw[1].bounding_box.xmax,
                     page_results[p].raw[2].bounding_box.xmax),
                 Min(page_results[p].raw[1].bounding_box.ymin,
                     page_results[p].raw[2].bounding_box.ymin),
                 Max(page_results[p].raw[1].bounding_box.ymax,
                     page_results[p].raw[2].bounding_box.ymax))

\* the ids of the spans of raw whose text is one of texts
IdsOfTexts(raw, texts) == {raw[i].oid : i \in {j \in 1..Len(raw) : raw[j].text \in texts}}

\* the set of ids members holds a token of '21 Teeth' together with a token of
\* '0.080in Pitch'
MixesStackedFeatures(members, raw) ==
  /\ members \cap IdsOfTexts(raw, {T_21, T_Teeth}) # {}
  /\ members \cap IdsOfTexts(raw, {T_080in, T_Pitch}) # {}

\* C19: for the spans '21', 'Teeth' and, below them, '0.080in', 'Pitch' no group
\* of the grouper holds a token of '21 Teeth' together with 'Pitch' or '0.080in',
\* and with the VLM entries '21 Teeth' and '0.080in Pitch' the page gives two
\* distinct dimensions that rest on disjoint sets of spans.
C19_StackedFeaturesKeptApart ==
  /\ \A g \in 1..Len(grouped_ocr) :
       ~MixesStackedFeatures(grouped_ocr[g].members, raw_ocr)
  /\ \A p \in 1..Len(page_results) :
       (/\ page_results[p].image_base64 = "stacked"
        /\ page_results[p].ocr = "done" /\ page_results[p].vlm = "done") =>
         /\ Len(page_results[p].dimensions) = 2
         /\ {page_results[p].dimensions[i].value : i \in 1..2}
              = {T_21_Teeth, T_080in_Pitch}
         /\ page_results[p].dimensions[1].support
              \cap page_results[p].dimensions[2].support = {}
         /\ \A i \in 1..2 :
              ~MixesStackedFeatures(page_results[p].dimensions[i].support,
                                    page_results[p].raw)


\* the spans of raw are an integer and, after it on the same line, a fraction,
\* the gap between them within the horizontal threshold
IntegerThenFraction(raw, avg) ==
  /\ Len(raw) = 2
  /\ raw[1].text = T_3 /\ raw[2].text = T_quarter
  /\ raw[1].bounding_box.ymin = raw[2].bounding_box.ymin
  /\ raw[1].bounding_box.ymax = raw[2].bounding_box.ymax
  /\ raw[2].bounding_box.xmin - raw[1].bounding_box.xmax \in 0..H_THRESH(avg)

\* C20: once a page is grouped, an integer span followed on the same line by a
\* fraction span, at any gap up to the horizontal threshold, is one grouped span
\* that holds both and reads '3 1/4"', with a single space between the parts.
C20_MixedFractionMerged ==
  (pc \in {"run_gemini", "await_gemini", "match"}
     /\ IntegerThenFraction(raw_ocr, avg_height)) =>
    /\ Len(grouped_ocr) = 1
    /\ grouped_ocr[1].members = {raw_ocr[1].oid, raw_ocr[2].oid}
    /\ grouped_ocr[1].text = T_3_quarter


\* C21: _normalize is idempotent: called on what it returned, it returns the same
\* text again.
C21_NormalizeIdempotent ==
  Len(normalized) = 2 => normalized[2] = normalized[1]

\* a text with a capital, an o with stroke, a quote and an en dash was normalised
\* twice, the first call having changed it
C21_Witness ==
  /\ Len(normalized) = 2
  /\ text = <<"Oslash", "endash", "\"">>
  /\ normalized[1] = <<"o", "-">>


\* the type the signature at the head of the payload stands for, "" for none
SignatureType(magic) ==
  CASE magic = "%PDF" -> "pdf" [] magic = "PNG" -> "png" [] magic = "JPEG" -> "jpeg"
    [] OTHER -> ""

\* the type the extension of the file name stands for, "" for none
ExtensionType(ext) ==
  CASE ext = "pdf" -> "pdf" [] ext = "png" -> "png" [] ext \in {"jpg", "jpeg"} -> "jpeg"
    [] OTHER -> ""

\* C23: the type detected for the uploaded file is the type of the signature at
\* the head of the payload whatever the file name; without a signature it is the
\* type of the extension of the file name; without either it is unknown and the
\* request fails.
C23_MagicBytesFirst ==
  pc # "process_file" =>
    /\ SignatureType(file.magic) # "" =>
          file_result[1].file_type = SignatureType(file.magic)
    /\ (SignatureType(file.magic) = "" /\ ExtensionType(file.ext) # "") =>
          file_result[1].file_type = ExtensionType(file.ext)
    /\ (SignatureType(file.magic) = "" /\ ExtensionType(file.ext) = "") =>
          /\ file_result[1].file_type = "unknown"
          /\ pc = "returned" /\ ~result[1].success

\* a payload with the PDF signature, uploaded under a name that ends in .png, was
\* taken as a PDF
C23_Witness ==
  /\ pc # "process_file"
  /\ file.magic = "%PDF" /\ file.ext = "png"
  /\ file_result[1].file_type = "pdf" /\ file_result[1].success


\* the page records carry the page numbers 1, 2, ... in order
NumberedInOrder(pages) == \A i \in 1..Len(pages) : pages[i].page_number = i

\* C22: a raster image (PNG or JPEG) that decodes gives total_pages = 1 and one
\* page, numbered 1; and the page records of every assembly, of the decoder and
\* of the result, carry the page numbers 1..len(pages) in order.
C22_PagesNumberedFromOne ==
  /\ (pc # "process_file" /\ file_result[1].success
        /\ file_result[1].file_type \in {"png", "jpeg"}) =>
       /\ file_result[1].total_pages = 1
       /\ Len(file_result[1].pages) = 1
       /\ file_result[1].pages[1].page_number = 1
  /\ pc # "process_file" => NumberedInOrder(file_result[1].pages)
  /\ NumberedInOrder(page_results)
  /\ Succeeded =>
       /\ NumberedInOrder(result[1].pages)
       /\ Len(result[1].pages) = Len(file_result[1].pages)
       /\ result[1].total_pages = file_result[1].total_pages

\* a JPEG image that decodes was returned: one page, numbered 1
C22_Witness ==
  /\ Succeeded
  /\ file.magic = "JPEG" /\ file_result[1].file_type = "jpeg"
  /\ result[1].total_pages = 1
  /\ Len(result[1].pages) = 1
  /\ result[1].pages[1].page_number = 1


\* the dimensions of a page that came from the VLM entry at position k
DimensionsOfEntry(page, k) ==
  {i \in 1..Len(page.dimensions) : page.dimensions[i].entry = k}

\* the entry at position k of the page was fused with an OCR span
Fused(page, k) ==
  \E i \in DimensionsOfEntry(page, k) : page.dimensions[i].strategy \in {1, 2, 3}

\* C24: a VLM entry is fused with an OCR span by Strategy 1 only on a combined
\* score of at least 0.5; an entry that no strategy accepts is emitted by
\* Strategy 4 when its VLM confidence is at least 0.75 and dropped otherwise.
C24_WeakMatchNotFused ==
  \A p \in 1..Len(page_results) :
    /\ \A i \in 1..Len(page_results[p].dimensions) :
         page_results[p].dimensions[i].strategy = 1 =>
           page_results[p].dimensions[i].confidence >= 50000
    /\ page_results[p].vlm = "done" =>
         \A k \in 1..Len(page_results[p].entries) :
           ~Fused(page_results[p], k) =>
             (page_results[p].entries[k].confidence >= 75000
                <=> \E i \in DimensionsOfEntry(page_results[p], k) :
                      page_results[p].dimensions[i].strategy = 4)


\* the page of the request is grouped: grouped_ocr is _group_ocr of raw_ocr
Grouped == pc \in {"run_gemini", "await_gemini", "match"}

\* a tolerance token: ^[+\-±]\d+(\.\d+)?$
ToleranceToken(t) ==
  LET n == Plus(t, One(t, Start, {"+", "-", "pm"}), Digits)
  IN AtEnd(t, n \cup Plus(t, Lit(t, n, <<".">>), Digits))

\* b is on the line of a, after it, the gap between them from 0 to gap_max
OnLineAfter(a, b, gap_max) ==
  /\ a.bounding_box.ymin = b.bounding_box.ymin
  /\ a.bounding_box.ymax = b.bounding_box.ymax
  /\ b.bounding_box.xmin - a.bounding_box.xmax \in 0..gap_max

\* C25: once a page is grouped, two spans on the same line of which the right
\* one is a tolerance token are in one grouped span, for every gap up to the
\* horizontal threshold.
C25_ToleranceAttached ==
  Grouped =>
    \A i, j \in 1..Len(raw_ocr) :
      (ToleranceToken(raw_ocr[j].text)
         /\ OnLineAfter(raw_ocr[i], raw_ocr[j], H_THRESH(avg_height))) =>
        \E g \in 1..Len(grouped_ocr) :
          {raw_ocr[i].oid, raw_ocr[j].oid} \subseteq grouped_ocr[g].members


\* _should_group_improved takes a and b as horizontally adjacent
HorizontallyAdjacent(a, b, avg) ==
  /\ Abs((b.bounding_box.ymin + b.bounding_box.ymax)
           - (a.bounding_box.ymin + a.bounding_box.ymax)) <= 2 * V_THRESH(avg)
  /\ b.bounding_box.xmin - a.bounding_box.xmax \in -5..H_THRESH(avg)

\* _should_group_improved takes b as stacked under a
StackedUnder(a, b, avg) ==
  /\ ~HorizontallyAdjacent(a, b, avg)
  /\ Abs((b.bounding_box.xmin + b.bounding_box.xmax)
           - (a.bounding_box.xmin + a.bounding_box.xmax)) <= 3 * H_THRESH(avg)
  /\ (b.bounding_box.ymin + b.bounding_box.ymax)
       - (a.bounding_box.ymin + a.bounding_box.ymax) \in 1..(2 * V_STACK(avg))

\* the positions of raw_ocr of the spans a grouped span holds
MembersAt(g) == {i \in 1..Len(raw_ocr) : raw_ocr[i].oid \in g.members}

\* in the group at positions m the span at b can have joined through the span at
\* a only: it is a neighbour of a and of no other span of the group, and a is no
\* neighbour of it
JoinedThrough(m, a, b) ==
  /\ a \in m /\ b \in m /\ a # b
  /\ HorizontallyAdjacent(raw_ocr[a], raw_ocr[b], avg_height)
  /\ \A c \in m \ {a, b} :
       /\ ~HorizontallyAdjacent(raw_ocr[c], raw_ocr[b], avg_height)
       /\ ~StackedUnder(raw_ocr[c], raw_ocr[b], avg_height)
  /\ \A c \in m \ {b} :
       /\ ~HorizontallyAdjacent(raw_ocr[b], raw_ocr[c], avg_height)
       /\ ~StackedUnder(raw_ocr[b], raw_ocr[c], avg_height)

\* C26: once a page is grouped, no grouped span holds a complete standalone
\* dimension b that joined through a horizontal neighbour a which is a complete
\* standalone dimension as well, whatever the gap and whatever else the group
\* holds (a description phrase included).
C26_CompleteDimensionsKeptApart ==
  Grouped =>
    \A g \in 1..Len(grouped_ocr) : \A a, b \in MembersAt(grouped_ocr[g]) :
      (_is_complete_dim(Strip(raw_ocr[a].text)) /\ _is_complete_dim(Strip(raw_ocr[b].text)))
        => ~JoinedThrough(MembersAt(grouped_ocr[g]), a, b)


\* C27: every coordinate of the list the response parser of the VLM adapter
\* returns lies in the valid range 0..1 (0..1000 here), for the entries whose
\* max coordinate is not greater than the min coordinate as well.
C27_ParsedCoordinatesClamped ==
  (pc = "match" /\ vision_service = "VisionService" /\ vlm_call = "done") =>
    \A k \in 1..Len(gemini_results) : ValidBoundingBox(gemini_results[k].bbox)


\* C28: on every page each VLM entry gives at most one dimension, the value of
\* every dimension is the value of the VLM entry it came from, and so the page
\* has no more dimensions than VLM entries.
C28_ValueIsVlmValue ==
  \A p \in 1..Len(page_results) :
    /\ Len(page_results[p].dimensions) <= Len(page_results[p].entries)
    /\ \A i \in 1..Len(page_results[p].dimensions) :
         /\ page_results[p].dimensions[i].entry \in 1..Len(page_results[p].entries)
         /\ page_results[p].dimensions[i].value
              = page_results[p].entries[page_results[p].dimensions[i].entry].value
    /\ \A k \in 1..Len(page_results[p].entries) :
         Cardinality(DimensionsOfEntry(page_results[p], k)) <= 1

\* the page of '3' and '1/4"' gave one dimension fused with the merged OCR span
\* '31/4"', its value the VLM's '3 1/4"'
C28_Witness ==
  /\ Len(page_results) = 1
  /\ page_results[1].image_base64 = "mixed"
  /\ Len(page_results[1].entries) = 2
  /\ Len(page_results[1].dimensions) >= 1
  /\ page_results[1].dimensions[1].support = {1, 2}
  /\ page_results[1].dimensions[1].value = T_3_quarter


\* the box b contains the box c
Contains(b, c) ==
  /\ b.xmin <= c.xmin /\ c.xmax <= b.xmax
  /\ b.ymin <= c.ymin /\ c.ymax <= b.ymax

\* the coordinate-wise min/max union of the boxes of the spans at positions m of
\* raw_ocr
UnionOfMembers(m) ==
  Box(CHOOSE v \in {raw_ocr[i].bounding_box.xmin : i \in m} :
        \A i \in m : v <= raw_ocr[i].bounding_box.xmin,
      CHOOSE v \in {raw_ocr[i].bounding_box.xmax : i \in m} :
        \A i \in m : v >= raw_ocr[i].bounding_box.xmax,
      CHOOSE v \in {raw_ocr[i].bounding_box.ymin : i \in m} :
        \A i \in m : v <= raw_ocr[i].bounding_box.ymin,
      CHOOSE v \in {raw_ocr[i].bounding_box.ymax : i \in m} :
        \A i \in m : v >= raw_ocr[i].bounding_box.ymax)

\* C29: once a page is grouped, every OCR span of the page is in exactly one
\* grouped span, a grouped span holds spans of the page only, at least one, and
\* its box is the coordinate-wise min/max union of the boxes of its spans, so
\* that it contains each of them.
C29_GrouperPartitions ==
  Grouped =>
    /\ \A i \in 1..Len(raw_ocr) :
         Cardinality({g \in 1..Len(grouped_ocr) :
                        raw_ocr[i].oid \in grouped_ocr[g].members}) = 1
    /\ \A g \in 1..Len(grouped_ocr) :
         /\ grouped_ocr[g].members # {}
         /\ grouped_ocr[g].members \subseteq {raw_ocr[i].oid : i \in 1..Len(raw_ocr)}
         /\ grouped_ocr[g].bounding_box = UnionOfMembers(MembersAt(grouped_ocr[g]))
         /\ \A i \in MembersAt(grouped_ocr[g]) :
              Contains(grouped_ocr[g].bounding_box, raw_ocr[i].bounding_box)

\* the four stacked spans were grouped into a span of three and a span of one
C29_Witness ==
  /\ Grouped
  /\ Len(raw_ocr) = 4 /\ raw_ocr[2].text = T_Teeth
  /\ Len(grouped_ocr) = 2
  /\ grouped_ocr[1].members = {1, 2, 4}
  /\ grouped_ocr[1].bounding_box = Box(480, 520, 472, 526)
  /\ grouped_ocr[2].members = {3}


\* C30: a detect_grid call that reports detected=False leaves the service
\* without a grid: assign_zone and recalculate_zone return None after it, and
\* not a zone of the grid that an earlier call stored.
C30_NoGridAfterFailedDetection ==
  [][((DetectGridNoService \/ DetectGrid) /\ ~grid_info'[1].detected) =>
       /\ assign_zone(zone_boundaries', probe[1].bounding_box) = NoZone
       /\ recalculate_zone(zone_boundaries', probe[1].bounding_box) = NoZone]_vars

====
